---- MODULE Spec2Model ----
(***************************************************************************)
(* Model of the fetch / detect / solve / retry / analyze pipeline of       *)
(* WebScraperOrchestrator.process_query, together with the collaborators   *)
(* it drives: WebScraperTool (context manager, fetch_page_content,         *)
(* detect_captcha), CaptchaSolverAgent.solve_captcha and                   *)
(* ContentAnalyzerAgent.analyze_content.                                   *)
(*                                                                         *)
(* Python str values that the code inspects character by character (image  *)
(* keys, markup, page text) are tuples of one-character strings.  Text     *)
(* that the code only passes around (urls, queries, model responses,       *)
(* exception messages) is a TLA+ string.                                   *)
(***************************************************************************)
EXTENDS Integers, Sequences, FiniteSets, TLC

(***************************************************************************)
(* Bounds                                                                  *)
(***************************************************************************)
MaxAttempts == 3        \* max_captcha_attempts ranges over 0..MaxAttempts
MaxCalls == 2           \* process_query calls made on the one orchestrator
NumThreads == 2         \* threads that call process_query

Threads == 1..NumThreads

None == "None"          \* Python's None

(***************************************************************************)
(* Character strings                                                       *)
(***************************************************************************)
s_captcha == <<"c", "a", "p", "t", "c", "h", "a">>
s_verify == <<"v", "e", "r", "i", "f", "y">>
s_human == <<"h", "u", "m", "a", "n">>
s_prove == <<"p", "r", "o", "v", "e">>
s_are_you_a_robot == <<"a", "r", "e", " ", "y", "o", "u", " ", "a", " ", "r", "o", "b", "o", "t">>
s_not == <<"n", "o", "t">>
s_robot == <<"r", "o", "b", "o", "t">>
s_src == <<"s", "r", "c">>
s_alt == <<"a", "l", "t">>
s_img == <<"i", "m", "g">>
s_div == <<"d", "i", "v">>
s_input == <<"i", "n", "p", "u", "t">>
s_form == <<"f", "o", "r", "m">>
s_42 == <<"4", "2">>
s_span == <<"s", "p", "a", "n">>
s_class == <<"c", "l", "a", "s", "s">>
s_name == <<"n", "a", "m", "e">>
s_value == <<"v", "a", "l", "u", "e">>
s_hi == <<"h", "i">>
s_Not_ == <<"N", "o", "t", " ">>
s_not_nl == <<"n", "o", "t", "\n">>
s_Captcha == <<"C", "a", "p", "t", "c", "h", "a">>
s_logo == <<"l", "o", "g", "o">>
s_Captcha_png == <<"C", "a", "p", "t", "c", "h", "a", ".", "p", "n", "g">>
s_CAPTCHA_gif == <<"/", "C", "A", "P", "T", "C", "H", "A", ".", "g", "i", "f">>
s_VerifyHuman == <<"V", "e", "r", "i", "f", "y", " ", "y", "o", "u", " ", "a", "r", "e", " ", "h", "u", "m", "a", "n">>
s_data_gif == <<"d", "a", "t", "a", ":", "i", "m", "a", "g", "e", "/", "g", "i", "f", ";", "b", "a", "s", "e", "6", "4", ",", "A", "A", "=", "=">>
s_data_png_1 == <<"d", "a", "t", "a", ":", "i", "m", "a", "g", "e", "/", "p", "n", "g", ";", "b", "a", "s", "e", "6", "4", ",", "Q", "Q", "=", "=">>
s_data_png_2 == <<"d", "a", "t", "a", ":", "i", "m", "a", "g", "e", "/", "p", "n", "g", ";", "b", "a", "s", "e", "6", "4", ",", "Q", "g", "=", "=">>

UpperLetters == <<"A", "B", "C", "D", "E", "F", "G", "H", "I", "J", "K", "L", "M",
                  "N", "O", "P", "Q", "R", "S", "T", "U", "V", "W", "X", "Y", "Z">>
LowerLetters == <<"a", "b", "c", "d", "e", "f", "g", "h", "i", "j", "k", "l", "m",
                  "n", "o", "p", "q", "r", "s", "t", "u", "v", "w", "x", "y", "z">>

\* str.lower() on one character
LowerChar(c) ==
    IF \E k \in 1..26 : UpperLetters[k] = c
    THEN LowerLetters[CHOOSE k \in 1..26 : UpperLetters[k] = c]
    ELSE c

\* str.lower()
Lower(s) == [k \in 1..Len(s) |-> LowerChar(s[k])]

\* s[at : at + len(sub)] == sub
MatchAt(sub, s, at) ==
    /\ at >= 1
    /\ at + Len(sub) - 1 <= Len(s)
    /\ \A k \in 1..Len(sub) : s[at + k - 1] = sub[k]

\* the Python expression  sub in s
Contains(s, sub) == \E at \in 1..(Len(s) + 1) : MatchAt(sub, s, at)

\* str.startswith
StartsWith(s, prefix) == MatchAt(prefix, s, 1)

(***************************************************************************)
(* re.search(pattern, s, re.I) for the patterns of detect_captcha.  A      *)
(* pattern is the tuple of its literal parts, the parts being joined by    *)
(* ".*" in the source; "." does not match a newline.                       *)
(***************************************************************************)
captcha_patterns ==
    << <<s_captcha>>,
       <<s_verify, s_human>>,
       <<s_prove, s_human>>,
       <<s_are_you_a_robot>>,
       <<s_not, s_robot>> >>

\* re.search with re.DOTALL: "." matches a newline too
re_search_DotAll(pattern, s) ==
    LET ls == Lower(s)
    IN  IF Len(pattern) = 1
        THEN Contains(ls, pattern[1])
        ELSE \E i \in 1..Len(ls), j \in 1..Len(ls) :
                /\ MatchAt(pattern[1], ls, i)
                /\ j >= i + Len(pattern[1])
                /\ MatchAt(pattern[2], ls, j)

re_search(pattern, s) ==
    LET ls == Lower(s)
    IN  IF Len(pattern) = 1
        THEN Contains(ls, pattern[1])
        ELSE \E i \in 1..Len(ls), j \in 1..Len(ls) :
                /\ MatchAt(pattern[1], ls, i)
                /\ j >= i + Len(pattern[1])
                /\ MatchAt(pattern[2], ls, j)
                /\ \A k \in (i + Len(pattern[1]))..(j - 1) : ls[k] # "\n"

(***************************************************************************)
(* Parsed HTML (the BeautifulSoup tree of a page): a sequence of nodes,    *)
(* each a text node or an element with attributes and inner text.          *)
(***************************************************************************)
TextNode(chars) == [kind |-> "text", tag |-> <<>>, attrs |-> <<>>, inner |-> chars]
Element(tag, attrs, inner) == [kind |-> "elem", tag |-> tag, attrs |-> attrs, inner |-> inner]

RECURSIVE Concat(_)
Concat(seqs) == IF seqs = <<>> THEN <<>> ELSE Head(seqs) \o Concat(Tail(seqs))

\* soup.get_text(): the text of every node, in document order
get_text(soup) == Concat([k \in 1..Len(soup) |-> soup[k].inner])

\* str(elem): the element serialised as markup, <tag a="v">inner</tag>, or
\* <tag a="v"/> for a void element
VoidTags == {s_img, s_input}

Markup(elem) ==
    <<"<">> \o elem.tag
    \o Concat([k \in 1..Len(elem.attrs) |->
                  <<" ">> \o elem.attrs[k][1] \o <<"=", "\"">> \o elem.attrs[k][2] \o <<"\"">>])
    \o (IF elem.tag \in VoidTags
        THEN <<"/", ">">>
        ELSE <<">">> \o elem.inner \o <<"<", "/">> \o elem.tag \o <<">">>)

\* soup.find_all(tags)
find_all(soup, tags) == SelectSeq(soup, LAMBDA n : n.kind = "elem" /\ n.tag \in tags)

\* elem.get(name, "")
GetAttr(elem, name) ==
    IF \E k \in 1..Len(elem.attrs) : elem.attrs[k][1] = name
    THEN elem.attrs[CHOOSE k \in 1..Len(elem.attrs) :
                        /\ elem.attrs[k][1] = name
                        /\ \A m \in 1..(k - 1) : elem.attrs[m][1] # name][2]
    ELSE <<>>

\* detect_captcha without the loop of lines 140-142 over the elements
detect_captcha_NoElements(html) ==
    LET text == Lower(get_text(html))
        imgs == find_all(html, {s_img})
    IN  \/ \E p \in 1..Len(captcha_patterns) : re_search(captcha_patterns[p], text)
        \/ \E g \in 1..Len(imgs) :
              \/ Contains(Lower(GetAttr(imgs[g], s_src)), s_captcha)
              \/ Contains(Lower(GetAttr(imgs[g], s_alt)), s_captcha)

\* WebScraperTool.detect_captcha
detect_captcha(html) ==
    LET text == Lower(get_text(html))
        elems == find_all(html, {s_img, s_input, s_form, s_div})
        imgs == find_all(html, {s_img})
    IN  \/ \E p \in 1..Len(captcha_patterns) : re_search(captcha_patterns[p], text)
        \/ \E e \in 1..Len(elems), p \in 1..Len(captcha_patterns) :
              re_search(captcha_patterns[p], Markup(elems[e]))
        \/ \E g \in 1..Len(imgs) :
              \/ Contains(Lower(GetAttr(imgs[g], s_src)), s_captcha)
              \/ Contains(Lower(GetAttr(imgs[g], s_alt)), s_captcha)

(***************************************************************************)
(* Pages the browser can render                                            *)
(***************************************************************************)
HtmlPlain == << Element(s_div, <<>>, s_42) >>
HtmlCaptchaImg == << Element(s_img, << <<s_src, s_Captcha_png>> >>, <<>>) >>
HtmlTextGate == << TextNode(s_VerifyHuman) >>
HtmlThreeImages ==
    << Element(s_img, << <<s_src, s_data_gif>> >>, <<>>),
       Element(s_img, << <<s_src, s_CAPTCHA_gif>> >>, <<>>),
       Element(s_img, << <<s_src, s_Captcha_png>> >>, <<>>) >>

\* Results of fetch_page_content: html and the ordered image map
\* (a Python dict in insertion order, as <<key, value>> pairs).
FetchResult(html, images) == [html |-> html, images |-> images]

FetchResults ==
    { FetchResult(HtmlPlain, <<>>),
      FetchResult(HtmlCaptchaImg, << <<s_Captcha_png, s_data_png_1>> >>),
      FetchResult(HtmlCaptchaImg, <<>>),
      FetchResult(HtmlTextGate, <<>>),
      FetchResult(HtmlThreeImages, << <<s_data_gif, s_data_gif>>,
                                      <<s_CAPTCHA_gif, s_data_png_2>>,
                                      <<s_Captcha_png, s_data_png_1>> >>) }

(***************************************************************************)
(* Exceptions and outcomes.  An exception is its type, its message and   *)
(* the number formatted into the message (0 when there is none); the       *)
(* outcome of a call is a returned value or a raised exception.            *)
(***************************************************************************)
Exc(type, msg) == [type |-> type, msg |-> msg, arg |-> 0]
Return(v) == [kind |-> "return", value |-> v]
Raise(e) == [kind |-> "raise", value |-> e]

\* what page.goto / page.content / new_page can raise inside fetch_page_content
FetchExceptions ==
    { Exc("Exception", "Failed to load"),
      Exc("TimeoutError", "Timeout 60000ms exceeded") }
BrowserNotInitialized ==
    Exc("ValueError", "Browser not initialized. Use with WebScraperTool() as scraper: ...")
BrowserClosed == Exc("TargetClosedError", "Browser has been closed")

\* what CaptchaSolverAgent.solve_captcha can raise (llm.invoke failing,
\* or a response whose content is not a str)
SolveExceptions ==
    { Exc("ConnectionError", "model unreachable"),
      Exc("AttributeError", "'list' object has no attribute 'strip'") }
\* what solve_captcha can return
Solutions == { "CAPTCHA123", "" }

\* what llm.invoke can raise inside analyze_content
InvokeExceptions == { Exc("Exception", "LLM processing error") }

\* raise Exception(f"Maximum CAPTCHA attempts ({self.max_captcha_attempts}) exceeded")
\* the attempts-exceeded failure raised with the text of fetch's own failure
AttemptsExceeded_FailedToLoad(n) ==
    [type |-> "Exception", msg |-> "Failed to load", arg |-> 0]

\* (arg is the number formatted into the message)
AttemptsExceeded(n) ==
    [type |-> "Exception", msg |-> "Maximum CAPTCHA attempts ({}) exceeded", arg |-> n]

(***************************************************************************)
(* ContentAnalyzerAgent.analyze_content                                    *)
(***************************************************************************)
\* Response texts the analysis model can produce
TextFull == "{\"answer\": \"The answer is 42\", \"reasoning\": \"Found in the page\", \"html_element\": \"<div>42</div>\"}"
TextAnswerOnly == "{\"answer\": \"The answer is 42\"}"
TextNoAnswer == "{\"reasoning\": \"Found in the page\"}"
TextNullFields == "{\"answer\": null, \"reasoning\": null}"
TextNotJson == "Not a JSON response"
TextJsonArray == "[1, 2]"
TextJsonNumber == "42"

\* json.loads: the parsed value, or the JSONDecodeError it raises
JsonError == [type |-> "JSONDecodeError", value |-> None]
JsonDict(fields) == [type |-> "dict", value |-> fields]
JsonList(items) == [type |-> "list", value |-> items]
JsonInt(n) == [type |-> "int", value |-> n]

json_loads(text) ==
    CASE text = TextFull ->
            JsonDict([answer |-> "The answer is 42", reasoning |-> "Found in the page",
                      html_element |-> "<div>42</div>"])
      [] text = TextAnswerOnly -> JsonDict([answer |-> "The answer is 42"])
      [] text = TextNoAnswer -> JsonDict([reasoning |-> "Found in the page"])
      [] text = TextNullFields -> JsonDict([answer |-> None, reasoning |-> None])
      [] text = TextJsonArray -> JsonList(<<1, 2>>)
      [] text = TextJsonNumber -> JsonInt(42)
      [] OTHER -> JsonError

\* a get that also falls back on the default for a key whose value is None
DictGet_DefaultOnNone(d, key, default) ==
    IF key \in DOMAIN d /\ d[key] # None THEN d[key] ELSE default

\* dict.get(key, default)
DictGet(d, key, default) == IF key \in DOMAIN d THEN d[key] ELSE default

\* The objects llm.invoke can return: a message object with a content
\* attribute, a dict with a 'content' key, or any other object (shape
\* "other": content is its str()).
LLMResponse(shape, content) == [shape |-> shape, content |-> content]

AnalyzerResponses ==
    { LLMResponse("message", t) :
         t \in {TextFull, TextAnswerOnly, TextNoAnswer, TextNullFields,
                TextNotJson, TextJsonArray, TextJsonNumber} }
    \cup { LLMResponse("dict", TextFull), LLMResponse("dict", TextNotJson),
           LLMResponse("other", TextNotJson) }

\* lines 87-93: response_content
ResponseContent(response) == response.content

AnalysisResult(answer, reasoning, html_element) ==
    [answer |-> answer, reasoning |-> reasoning, html_element |-> html_element]

\* Lines 84-112 of analyze_content for one outcome of llm.invoke
\* (lines 57-82 only build the prompt; the model's response is any of
\* InvokeOutcomes whatever the prompt)
\* (a Return(response) or a Raise(exception)).
analyze_content(invoked) ==
    IF invoked.kind = "raise"
    THEN invoked
    ELSE LET response_content == ResponseContent(invoked.value)
             result == json_loads(response_content)
         IN  IF result.type = "JSONDecodeError"
             THEN Return(AnalysisResult(response_content,
                            "Raw response from model (not in expected JSON format)", None))
             ELSE IF result.type = "dict"
             THEN Return(AnalysisResult(
                            DictGet(result.value, "answer", response_content),
                            DictGet(result.value, "reasoning", "Direct response from model"),
                            DictGet(result.value, "html_element", None)))
             ELSE Raise(Exc("AttributeError", "object has no attribute 'get'"))

InvokeOutcomes ==
    { Return(r) : r \in AnalyzerResponses } \cup { Raise(e) : e \in InvokeExceptions }

(***************************************************************************)
(* State                                                                   *)
(***************************************************************************)
VARIABLES
    max_captcha_attempts,   \* WebScraperOrchestrator.max_captcha_attempts
    _playwright,            \* WebScraperTool._playwright: 0 (None) or the instance
    _browser,               \* WebScraperTool._browser: 0 (None) or the instance
    playwrights,            \* the Playwright instances started so far, and their state
    browsers,               \* the browsers launched so far, and their state
    ncalls,                 \* process_query calls made so far
    pc,                     \* per thread, the position of its process_query invocation
    url,                    \* per thread, the arguments of its invocation
    query,
    captcha_attempts,       \* per thread, the locals of its invocation
    html,
    images,
    captcha_image,
    pending,                \* the value being returned / exception being raised
    outcome,                \* what the caller of process_query gets
    calls,                  \* per thread, the calls its invocation has made so far
    doc,                    \* the html argument of a detect_captcha call
    detected,               \* what that call returned
    api_pc,                 \* the position of the POST /ask handler
    request,                \* the QueryRequest being handled
    api_result,             \* ask_page's local result: what crew.kickoff() gave, then the dict made of it
    response,               \* the HTTP response
    tool_pc,                \* a direct user of the tool: "ready", or its position in fetch_page_content
    tool_with,              \* whether that user is inside the tool's with block
    tool_url,               \* fetch_page_content: url
    tool_site,              \* what the browser gets at url: the page and what its image urls serve
    tool_html,              \* fetch_page_content: html
    tool_pending,           \* fetch_page_content: the return value or exception on its way out
    tool_requests,          \* the requests.get calls of the fetch under way
    tool_calls,             \* the calls on its page the fetch under way has made, with their results
    tool_out,               \* the last finished call on the tool and its outcome
    pages,                  \* per page opened so far, the number of close() calls on it
    page,                   \* fetch_page_content: page (0: none)
    solver_pc,              \* a direct caller of the solver: the position of its call
    solver_call,            \* the method called and its arguments
    invocations,            \* the llm.invoke calls of that call, with their outcomes
    solution,               \* solve_captcha / solve_text_captcha: solution
    solver_out,             \* what the caller of the solver gets
    run_pc,                 \* the position of a CustomScrapeWebsiteTool._run call
    run_pending,            \* _run: what is on its way out of the with block
    run_out                 \* what the caller of _run gets

vars == <<max_captcha_attempts, _playwright, _browser, playwrights, browsers, ncalls,
          pc, url, query, captcha_attempts, html, images, captcha_image,
          pending, outcome, calls, doc, detected, api_pc, request, api_result, response,
          tool_pc, tool_with, tool_url, tool_site, tool_html, tool_pending,
          tool_requests, tool_calls, tool_out, pages, page,
          solver_pc, solver_call, invocations, solution, solver_out,
          run_pc, run_pending, run_out>>

detect_vars == <<doc, detected>>
api_vars == <<api_pc, request, api_result, response>>
tool_vars == <<tool_pc, tool_with, tool_url, tool_site, tool_html, tool_pending,
               tool_requests, tool_calls, tool_out, pages, page>>
solver_vars == <<solver_pc, solver_call, invocations, solution, solver_out>>
run_vars == <<run_pc, run_pending, run_out>>
scraper_vars == <<_playwright, _browser, playwrights, browsers>>

\* process_query inputs
Inputs == { <<"https://example.com", "What is the meaning of life?">>,
            <<"https://example.org", "What is this?">> }

NoOutcome == [kind |-> "none", value |-> None]
NoImage == <<>>     \* captcha_image = None (falsy, as the empty str is)
NoRequest == [url |-> None, query |-> None]
NoResponse == [status |-> 0, body |-> None]

\* A logged call: the operation, its arguments, its outcome and what there
\* is to note about it (analyze: the outcome of its llm.invoke; enter: the
\* browser it launched; exit: the browser it closed; fetch: the page
\* returned, as seen by FetchNote).
Call(op, args, ret, inner) == [op |-> op, args |-> args, ret |-> ret, inner |-> inner]

\* the image map has a key containing "captcha", case-insensitively
HasCaptchaKey(imgs) == \E k \in 1..Len(imgs) : Contains(Lower(imgs[k][1]), s_captcha)

\* For a fetch that returned: whether detect_captcha reports its html as
\* gated, and whether its image map has a captcha-keyed entry.
FetchNote(fetched) ==
    IF fetched.kind = "return"
    THEN [gated |-> detect_captcha(fetched.value.html),
          keyed |-> HasCaptchaKey(fetched.value.images)]
    ELSE [gated |-> FALSE, keyed |-> FALSE]

\* WebScraperTool.__init__: no Playwright instance, no browser
ScraperNew ==
    /\ _playwright = 0
    /\ _browser = 0
    /\ playwrights = <<>>
    /\ browsers = <<>>

\* the tool inside its with block: Playwright started, the browser open
ScraperEntered ==
    /\ _playwright = 1
    /\ _browser = 1
    /\ playwrights = <<"started">>
    /\ browsers = <<"open">>

\* no process_query has been called
Idle ==
    /\ ncalls = 0
    /\ pc = [i \in Threads |-> "idle"]
    /\ url = [i \in Threads |-> None]
    /\ query = [i \in Threads |-> None]
    /\ captcha_attempts = [i \in Threads |-> 0]
    /\ html = [i \in Threads |-> <<>>]
    /\ images = [i \in Threads |-> <<>>]
    /\ captcha_image = [i \in Threads |-> NoImage]
    /\ pending = [i \in Threads |-> NoOutcome]
    /\ outcome = [i \in Threads |-> NoOutcome]
    /\ calls = [i \in Threads |-> <<>>]

\* no detect_captcha call is being looked at
NoDetect == doc = <<>> /\ detected = NoOutcome

\* no request has arrived
NoAsk ==
    /\ api_pc = "idle"
    /\ request = NoRequest
    /\ api_result = NoOutcome
    /\ response = NoResponse

\* the tool has no direct user: nobody is in its with block, no call on it
\* is under way or has finished, no page has been opened
NoSite == [html |-> <<>>, imgs |-> <<>>, net |-> <<>>]
NoToolOut == [op |-> "none", with |-> FALSE, ret |-> NoOutcome, url |-> None,
              site |-> NoSite, requests |-> <<>>, calls |-> <<>>, opened |-> 0]
NoFetch ==
    /\ tool_url = None
    /\ tool_site = NoSite
    /\ tool_html = <<>>
    /\ tool_pending = NoOutcome
    /\ tool_requests = <<>>
    /\ tool_calls = <<>>
    /\ page = 0
NoTool ==
    /\ tool_pc = "ready"
    /\ tool_with = FALSE
    /\ NoFetch
    /\ tool_out = NoToolOut
    /\ pages = <<>>

\* the solver has no direct caller
NoSolverCall == [method |-> "none", image_data_uri |-> <<>>, context |-> None, challenge |-> None]
NoSolver ==
    /\ solver_pc = "idle"
    /\ solver_call = NoSolverCall
    /\ invocations = <<>>
    /\ solution = <<>>
    /\ solver_out = NoOutcome

\* CustomScrapeWebsiteTool._run has not been called
NoRun ==
    /\ run_pc = "idle"
    /\ run_pending = NoOutcome
    /\ run_out = NoOutcome

Init ==
    /\ max_captcha_attempts \in 0..MaxAttempts
    /\ ScraperNew
    /\ Idle
    /\ NoDetect
    /\ NoAsk
    /\ NoTool
    /\ NoSolver
    /\ NoRun

(***************************************************************************)
(* WebScraperTool                                                          *)
(***************************************************************************)
\* What fetch_page_content can do in the current state of the tool:
\* the set of its outcomes.
fetch_page_content ==
    IF _browser = 0
    THEN { Raise(BrowserNotInitialized) }
    ELSE IF browsers[_browser] # "open"
    THEN { Raise(BrowserClosed) }
    ELSE { Return(fr) : fr \in FetchResults } \cup { Raise(e) : e \in FetchExceptions }

\* process_query with its counter kept on the orchestrator (self.captcha_attempts = 0):
\* a call resets the count of every invocation under way
ProcessQuery_SharedCounter(i) ==
    /\ pc[i] \in {"idle", "done"}
    /\ ncalls < MaxCalls
    /\ ncalls' = ncalls + 1
    /\ \E in \in Inputs :
          /\ url' = [url EXCEPT ![i] = in[1]]
          /\ query' = [query EXCEPT ![i] = in[2]]
    /\ captcha_attempts' = [j \in Threads |-> 0]
    /\ html' = [html EXCEPT ![i] = <<>>]
    /\ images' = [images EXCEPT ![i] = <<>>]
    /\ captcha_image' = [captcha_image EXCEPT ![i] = NoImage]
    /\ pending' = [pending EXCEPT ![i] = NoOutcome]
    /\ outcome' = [outcome EXCEPT ![i] = NoOutcome]
    /\ calls' = [calls EXCEPT ![i] = <<>>]
    /\ pc' = [pc EXCEPT ![i] = "enter"]
    /\ UNCHANGED <<max_captcha_attempts, scraper_vars>>


(***************************************************************************)
(* WebScraperOrchestrator.process_query, as invoked by thread i            *)
(***************************************************************************)
\* lines 89-94: thread i calls process_query(url, query); the locals of the
\* new invocation are fresh
ProcessQuery(i) ==
    /\ pc[i] \in {"idle", "done"}
    /\ ncalls < MaxCalls
    /\ ncalls' = ncalls + 1
    /\ \E in \in Inputs :
          /\ url' = [url EXCEPT ![i] = in[1]]
          /\ query' = [query EXCEPT ![i] = in[2]]
    /\ captcha_attempts' = [captcha_attempts EXCEPT ![i] = 0]
    /\ html' = [html EXCEPT ![i] = <<>>]
    /\ images' = [images EXCEPT ![i] = <<>>]
    /\ captcha_image' = [captcha_image EXCEPT ![i] = NoImage]
    /\ pending' = [pending EXCEPT ![i] = NoOutcome]
    /\ outcome' = [outcome EXCEPT ![i] = NoOutcome]
    /\ calls' = [calls EXCEPT ![i] = <<>>]
    /\ pc' = [pc EXCEPT ![i] = "enter"]
    /\ UNCHANGED <<max_captcha_attempts, scraper_vars>>

\* line 96: with scraper as scraper_instance  (WebScraperTool.__enter__)
Enter(i) ==
    /\ pc[i] = "enter"
    /\ playwrights' = Append(playwrights, "started")
    /\ _playwright' = Len(playwrights')
    /\ browsers' = Append(browsers, "open")
    /\ _browser' = Len(browsers')
    /\ calls' = [calls EXCEPT ![i] = Append(@, Call("enter", <<>>, Return(None), _browser'))]
    /\ pc' = [pc EXCEPT ![i] = "fetch"]
    /\ UNCHANGED <<max_captcha_attempts, ncalls, url, query, captcha_attempts, html,
                   images, captcha_image, pending, outcome>>

\* the fetch wrapped in a try/except that ignores its exception
FetchInto_Swallow(i, fetched) ==
    /\ calls' = [calls EXCEPT ![i] = Append(@, Call("fetch", <<url[i]>>, fetched, FetchNote(fetched)))]
    /\ IF fetched.kind = "return"
       THEN /\ html' = [html EXCEPT ![i] = fetched.value.html]
            /\ images' = [images EXCEPT ![i] = fetched.value.images]
            /\ pc' = [pc EXCEPT ![i] = "while"]
       ELSE /\ pc' = [pc EXCEPT ![i] = "check"]
            /\ UNCHANGED <<html, images>>
    /\ UNCHANGED <<max_captcha_attempts, scraper_vars, ncalls, url, query, captcha_attempts,
                   captcha_image, pending, outcome>>

\* html, images = scraper_instance.fetch_page_content(url), or its exception
\* leaving the with block
FetchInto(i, fetched) ==
    /\ calls' = [calls EXCEPT ![i] = Append(@, Call("fetch", <<url[i]>>, fetched, FetchNote(fetched)))]
    /\ IF fetched.kind = "return"
       THEN /\ html' = [html EXCEPT ![i] = fetched.value.html]
            /\ images' = [images EXCEPT ![i] = fetched.value.images]
            /\ pc' = [pc EXCEPT ![i] = "while"]
            /\ UNCHANGED pending
       ELSE /\ pending' = [pending EXCEPT ![i] = fetched]
            /\ pc' = [pc EXCEPT ![i] = "exit"]
            /\ UNCHANGED <<html, images>>
    /\ UNCHANGED <<max_captcha_attempts, scraper_vars, ncalls, url, query, captcha_attempts,
                   captcha_image, outcome>>

\* line 98: the first fetch
Fetch(i) ==
    /\ pc[i] = "fetch"
    /\ \E fetched \in fetch_page_content : FetchInto(i, fetched)

\* line 101 with the ceiling compared by <= : one attempt too many
LoopCondition_OneTooMany(i) ==
    detect_captcha(html[i]) /\ captcha_attempts[i] <= max_captcha_attempts

\* line 101: the loop condition
LoopCondition(i) ==
    detect_captcha(html[i]) /\ captcha_attempts[i] < max_captcha_attempts

WhileTest(i) ==
    /\ pc[i] = "while"
    /\ pc' = [pc EXCEPT ![i] = IF LoopCondition(i) THEN "body" ELSE "check"]
    /\ UNCHANGED <<max_captcha_attempts, scraper_vars, ncalls, url, query, captcha_attempts,
                   html, images, captcha_image, pending, outcome, calls>>

\* the loop of lines 105-109 without its break: the last match wins
FirstCaptchaImage_Last(imgs) ==
    IF \E k \in 1..Len(imgs) : Contains(Lower(imgs[k][1]), s_captcha)
    THEN imgs[CHOOSE k \in 1..Len(imgs) :
                 /\ Contains(Lower(imgs[k][1]), s_captcha)
                 /\ \A m \in (k + 1)..Len(imgs) : ~Contains(Lower(imgs[m][1]), s_captcha)][2]
    ELSE NoImage

\* lines 105-109: the data URI of the first image whose key contains "captcha"
FirstCaptchaImage(imgs) ==
    IF \E k \in 1..Len(imgs) : Contains(Lower(imgs[k][1]), s_captcha)
    THEN imgs[CHOOSE k \in 1..Len(imgs) :
                 /\ Contains(Lower(imgs[k][1]), s_captcha)
                 /\ \A m \in 1..(k - 1) : ~Contains(Lower(imgs[m][1]), s_captcha)][2]
    ELSE NoImage

\* the loop body with  continue  in place of break, ahead of the increment:
\* a gated page without a captcha-keyed image is tested again and again
LoopBody_ContinueUncounted(i) ==
    /\ pc[i] = "body"
    /\ captcha_image' = [captcha_image EXCEPT ![i] = FirstCaptchaImage(images[i])]
    /\ IF captcha_image'[i] = NoImage
       THEN /\ pc' = [pc EXCEPT ![i] = "while"]
            /\ UNCHANGED captcha_attempts
       ELSE /\ pc' = [pc EXCEPT ![i] = "solve"]
            /\ captcha_attempts' = [captcha_attempts EXCEPT ![i] = @ + 1]
    /\ UNCHANGED <<max_captcha_attempts, scraper_vars, ncalls, url, query, html, images,
                   pending, outcome, calls>>

\* lines 102-114: count the attempt, pick the challenge image, break without one
LoopBody(i) ==
    /\ pc[i] = "body"
    /\ captcha_attempts' = [captcha_attempts EXCEPT ![i] = @ + 1]
    /\ captcha_image' = [captcha_image EXCEPT ![i] = FirstCaptchaImage(images[i])]
    /\ pc' = [pc EXCEPT ![i] = IF captcha_image'[i] = NoImage THEN "check" ELSE "solve"]
    /\ UNCHANGED <<max_captcha_attempts, scraper_vars, ncalls, url, query, html, images,
                   pending, outcome, calls>>

\* the solve followed by  if not solution: break
Solve_ChecksSolution(i) ==
    /\ pc[i] = "solve"
    /\ \E solved \in { Return(sol) : sol \in Solutions } \cup { Raise(e) : e \in SolveExceptions } :
          /\ calls' = [calls EXCEPT ![i] =
                          Append(@, Call("solve", <<captcha_image[i], html[i]>>, solved, NoOutcome))]
          /\ IF solved.kind = "return"
             THEN /\ pc' = [pc EXCEPT ![i] = IF solved.value = "" THEN "check" ELSE "refetch"]
                  /\ UNCHANGED pending
             ELSE /\ pending' = [pending EXCEPT ![i] = solved]
                  /\ pc' = [pc EXCEPT ![i] = "exit"]
    /\ UNCHANGED <<max_captcha_attempts, scraper_vars, ncalls, url, query, captcha_attempts,
                   html, images, captcha_image, outcome>>

\* the solve wrapped in a try/except that ignores its exception
Solve_Swallow(i) ==
    /\ pc[i] = "solve"
    /\ \E solved \in { Return(sol) : sol \in Solutions } \cup { Raise(e) : e \in SolveExceptions } :
          calls' = [calls EXCEPT ![i] =
                       Append(@, Call("solve", <<captcha_image[i], html[i]>>, solved, NoOutcome))]
    /\ pc' = [pc EXCEPT ![i] = "refetch"]
    /\ UNCHANGED <<max_captcha_attempts, scraper_vars, ncalls, url, query, captcha_attempts,
                   html, images, captcha_image, pending, outcome>>

\* line 117: solution = captcha_solver.solve_captcha(captcha_image, context=html)
Solve(i) ==
    /\ pc[i] = "solve"
    /\ \E solved \in { Return(sol) : sol \in Solutions } \cup { Raise(e) : e \in SolveExceptions } :
          /\ calls' = [calls EXCEPT ![i] =
                          Append(@, Call("solve", <<captcha_image[i], html[i]>>, solved, NoOutcome))]
          /\ IF solved.kind = "return"
             THEN /\ pc' = [pc EXCEPT ![i] = "refetch"]
                  /\ UNCHANGED pending
             ELSE /\ pending' = [pending EXCEPT ![i] = solved]
                  /\ pc' = [pc EXCEPT ![i] = "exit"]
    /\ UNCHANGED <<max_captcha_attempts, scraper_vars, ncalls, url, query, captcha_attempts,
                   html, images, captcha_image, outcome>>

\* line 122 as  html = scraper_instance.fetch_page_content(url)[0]:
\* the images of the earlier fetch are kept
Refetch_HtmlOnly(i) ==
    /\ pc[i] = "refetch"
    /\ \E fetched \in fetch_page_content :
          /\ calls' = [calls EXCEPT ![i] =
                          Append(@, Call("fetch", <<url[i]>>, fetched, FetchNote(fetched)))]
          /\ IF fetched.kind = "return"
             THEN /\ html' = [html EXCEPT ![i] = fetched.value.html]
                  /\ pc' = [pc EXCEPT ![i] = "while"]
                  /\ UNCHANGED pending
             ELSE /\ pending' = [pending EXCEPT ![i] = fetched]
                  /\ pc' = [pc EXCEPT ![i] = "exit"]
                  /\ UNCHANGED html
    /\ UNCHANGED <<max_captcha_attempts, scraper_vars, ncalls, url, query, captcha_attempts,
                   images, captcha_image, outcome>>

\* the loop going back to its test without line 122
Refetch_Skipped(i) ==
    /\ pc[i] = "refetch"
    /\ pc' = [pc EXCEPT ![i] = "while"]
    /\ UNCHANGED <<max_captcha_attempts, scraper_vars, ncalls, url, query, captcha_attempts,
                   html, images, captcha_image, pending, outcome, calls>>

\* line 122: the refetch after a solve
Refetch(i) ==
    /\ pc[i] = "refetch"
    /\ \E fetched \in fetch_page_content : FetchInto(i, fetched)

\* line 125 without its second conjunct: the page is not checked again
Exceeded_IgnoresDetect(i) ==
    captcha_attempts[i] >= max_captcha_attempts

\* process_query without lines 125-126
Exceeded_Never(i) == FALSE

\* line 125: the condition of the attempts-exceeded check
Exceeded(i) ==
    captcha_attempts[i] >= max_captcha_attempts /\ detect_captcha(html[i])

\* lines 125-126: raise when the attempts are used up and the page is still gated
CheckExceeded(i) ==
    /\ pc[i] = "check"
    /\ IF Exceeded(i)
       THEN /\ pending' = [pending EXCEPT ![i] = Raise(AttemptsExceeded(max_captcha_attempts))]
            /\ pc' = [pc EXCEPT ![i] = "exit"]
       ELSE /\ pc' = [pc EXCEPT ![i] = "analyze"]
            /\ UNCHANGED pending
    /\ UNCHANGED <<max_captcha_attempts, scraper_vars, ncalls, url, query, captcha_attempts,
                   html, images, captcha_image, outcome, calls>>

\* lines 129-131: result = content_analyzer.analyze_content(html, query, images)
Analyze(i) ==
    /\ pc[i] = "analyze"
    /\ \E invoked \in InvokeOutcomes :
          LET result == analyze_content(invoked)
          IN  /\ calls' = [calls EXCEPT ![i] =
                              Append(@, Call("analyze", <<html[i], query[i], images[i]>>,
                                             result, invoked))]
              /\ pending' = [pending EXCEPT ![i] = result]
    /\ pc' = [pc EXCEPT ![i] = "exit"]
    /\ UNCHANGED <<max_captcha_attempts, scraper_vars, ncalls, url, query, captcha_attempts,
                   html, images, captcha_image, outcome>>

\* a close at the end of the body instead of in __exit__: skipped when the
\* body raised
exit_browsers_NotOnRaise(i) ==
    IF _browser # 0 /\ pending[i].kind # "raise"
    THEN [browsers EXCEPT ![_browser] = "closed"] ELSE browsers

\* WebScraperTool.__exit__: the browsers and the Playwright instances after it
exit_browsers(i) ==
    IF _browser # 0 THEN [browsers EXCEPT ![_browser] = "closed"] ELSE browsers

exit_playwrights(i) ==
    IF _playwright # 0 THEN [playwrights EXCEPT ![_playwright] = "stopped"] ELSE playwrights

\* leaving the with block on a return or on an exception: __exit__ runs, then
\* the pending return value or exception reaches the caller
Exit(i) ==
    /\ pc[i] = "exit"
    /\ browsers' = exit_browsers(i)
    /\ playwrights' = exit_playwrights(i)
    /\ calls' = [calls EXCEPT ![i] = Append(@, Call("exit", <<>>, Return(None), _browser))]
    /\ outcome' = [outcome EXCEPT ![i] = pending[i]]
    /\ pc' = [pc EXCEPT ![i] = "done"]
    /\ UNCHANGED <<max_captcha_attempts, _playwright, _browser, ncalls, url, query,
                   captcha_attempts, html, images, captcha_image, pending>>

\* Spec has one calling thread, which makes its calls one after the other;
\* starting Playwright, launching, closing and stopping succeed.
SingleThread(i) == i = 1

Next ==
    \/ \E i \in Threads : SingleThread(i) /\ ProcessQuery(i) /\ UNCHANGED <<detect_vars, api_vars, tool_vars, solver_vars, run_vars>>
    \/ \E i \in Threads : Enter(i) /\ UNCHANGED <<detect_vars, api_vars, tool_vars, solver_vars, run_vars>>
    \/ \E i \in Threads : Fetch(i) /\ UNCHANGED <<detect_vars, api_vars, tool_vars, solver_vars, run_vars>>
    \/ \E i \in Threads : WhileTest(i) /\ UNCHANGED <<detect_vars, api_vars, tool_vars, solver_vars, run_vars>>
    \/ \E i \in Threads : LoopBody(i) /\ UNCHANGED <<detect_vars, api_vars, tool_vars, solver_vars, run_vars>>
    \/ \E i \in Threads : Solve(i) /\ UNCHANGED <<detect_vars, api_vars, tool_vars, solver_vars, run_vars>>
    \/ \E i \in Threads : Refetch(i) /\ UNCHANGED <<detect_vars, api_vars, tool_vars, solver_vars, run_vars>>
    \/ \E i \in Threads : CheckExceeded(i) /\ UNCHANGED <<detect_vars, api_vars, tool_vars, solver_vars, run_vars>>
    \/ \E i \in Threads : Analyze(i) /\ UNCHANGED <<detect_vars, api_vars, tool_vars, solver_vars, run_vars>>
    \/ \E i \in Threads : Exit(i) /\ UNCHANGED <<detect_vars, api_vars, tool_vars, solver_vars, run_vars>>

Spec == Init /\ [][Next]_vars

(***************************************************************************)
(* Observations on the calls of thread i's current invocation              *)
(***************************************************************************)
CallsOf(i, op) == SelectSeq(calls[i], LAMBDA c : c.op = op)
NumFetch(i) == Len(CallsOf(i, "fetch"))
NumSolve(i) == Len(CallsOf(i, "solve"))
NumAnalyze(i) == Len(CallsOf(i, "analyze"))

\* the fetch returned, and its html is gated
GatedFetch(c) == c.ret.kind = "return" /\ c.inner.gated
\* the fetch returned, and its html is not gated
UngatedFetch(c) == c.ret.kind = "return" /\ ~c.inner.gated
\* the fetch returned gated html with a captcha-keyed image
GatedFetchWithImage(c) == GatedFetch(c) /\ c.inner.keyed

LastFetch(i) == CallsOf(i, "fetch")[NumFetch(i)]

FailedWithAttemptsExceeded(i) ==
    /\ outcome[i].kind = "raise"
    /\ outcome[i].value = AttemptsExceeded(max_captcha_attempts)

(***************************************************************************)
(* C1 (as stated): whenever every fetch of a finished invocation returned  *)
(* gated html, the invocation made exactly N solve calls and N+1 fetch     *)
(* calls, made no analyze call, and failed with the attempts-exceeded      *)
(* error, N being max_captcha_attempts.                                    *)
(***************************************************************************)
C1_AllFetchesGated ==
    \A i \in Threads :
        (/\ pc[i] = "done"
         /\ \A k \in 1..NumFetch(i) : GatedFetch(CallsOf(i, "fetch")[k]))
        => /\ NumSolve(i) = max_captcha_attempts
           /\ NumFetch(i) = max_captcha_attempts + 1
           /\ NumAnalyze(i) = 0
           /\ FailedWithAttemptsExceeded(i)

(***************************************************************************)
(* C1 (amended): whenever every fetch of a finished invocation returned    *)
(* gated html together with a captcha-keyed image, and every solve_captcha *)
(* call returned, the invocation made exactly N solve calls and N+1 fetch  *)
(* calls, made no analyze call, and failed with the attempts-exceeded      *)
(* error.                                                                  *)
(***************************************************************************)
C1_AllFetchesGatedWithImage ==
    \A i \in Threads :
        (/\ pc[i] = "done"
         /\ \A k \in 1..NumFetch(i) : GatedFetchWithImage(CallsOf(i, "fetch")[k])
         /\ \A k \in 1..NumSolve(i) : CallsOf(i, "solve")[k].ret.kind = "return")
        => /\ NumSolve(i) = max_captcha_attempts
           /\ NumFetch(i) = max_captcha_attempts + 1
           /\ NumAnalyze(i) = 0
           /\ FailedWithAttemptsExceeded(i)

\* N = 3: four gated fetches with an image, three solves, then the failure
C1_Witness ==
    \E i \in Threads :
        /\ pc[i] = "done"
        /\ max_captcha_attempts = 3
        /\ NumFetch(i) = 4
        /\ \A k \in 1..NumFetch(i) : GatedFetchWithImage(CallsOf(i, "fetch")[k])
        /\ NumSolve(i) = 3
        /\ FailedWithAttemptsExceeded(i)

(***************************************************************************)
(* C2: when the loop body was entered for a fetch that returned gated html *)
(* without a captcha-keyed image, the invocation makes no solve call and   *)
(* no further fetch for it, calls analyze_content on that content and does *)
(* not fail with the attempts-exceeded error -- also when that attempt     *)
(* brings captcha_attempts up to max_captcha_attempts.                     *)
(* (The body was entered for the last fetch exactly when captcha_attempts  *)
(* exceeds the number of solve calls.)                                     *)
(***************************************************************************)
C2_NoImageProceedsToAnalysis ==
    \A i \in Threads :
        (/\ pc[i] = "done"
         /\ NumFetch(i) >= 1
         /\ GatedFetch(LastFetch(i))
         /\ ~LastFetch(i).inner.keyed
         /\ captcha_attempts[i] > NumSolve(i))
        => /\ NumAnalyze(i) = 1
           /\ CallsOf(i, "analyze")[1].args[1] = LastFetch(i).ret.value.html
           /\ ~FailedWithAttemptsExceeded(i)

(***************************************************************************)
(* C3: in every state of an invocation, captcha_attempts <= N, at most     *)
(* N+1 fetch calls and at most N solve calls have been made.               *)
(***************************************************************************)
C3_AttemptsBounded ==
    \A i \in Threads :
        /\ captcha_attempts[i] <= max_captcha_attempts
        /\ NumFetch(i) <= max_captcha_attempts + 1
        /\ NumSolve(i) <= max_captcha_attempts

\* the bounds are reached: N >= 1 solves and N+1 fetches were made
C3_Witness ==
    \E i \in Threads :
        /\ max_captcha_attempts >= 1
        /\ captcha_attempts[i] = max_captcha_attempts
        /\ NumFetch(i) = max_captcha_attempts + 1
        /\ NumSolve(i) = max_captcha_attempts

(***************************************************************************)
(* C4: when the first fetch returns html that is not gated, the invocation *)
(* makes exactly 1 fetch call and no solve call, and once finished it has  *)
(* made exactly 1 analyze call, whose result is what process_query hands   *)
(* to its caller.                                                          *)
(***************************************************************************)
C4_UngatedFirstFetch ==
    \A i \in Threads :
        (NumFetch(i) >= 1 /\ UngatedFetch(CallsOf(i, "fetch")[1]))
        => /\ NumFetch(i) = 1
           /\ NumSolve(i) = 0
           /\ pc[i] = "done" => /\ NumAnalyze(i) = 1
                                /\ outcome[i] = CallsOf(i, "analyze")[1].ret

\* an ungated first fetch, analysed, the analyzer's result returned
C4_Witness ==
    \E i \in Threads :
        /\ pc[i] = "done"
        /\ UngatedFetch(CallsOf(i, "fetch")[1])
        /\ NumAnalyze(i) = 1
        /\ outcome[i].kind = "return"
        /\ outcome[i].value.answer = "The answer is 42"

(***************************************************************************)
(* C5: when the first k >= 1 fetches returned gated html with a            *)
(* captcha-keyed image and fetch k+1 returned html that is not gated, the  *)
(* invocation makes exactly k+1 fetches and k solves, and once finished it *)
(* has called analyze_content exactly once, on the html and images of      *)
(* fetch k+1 and the query, and hands its result to the caller -- also     *)
(* for k = max_captcha_attempts.                                           *)
(***************************************************************************)
C5_UngatedAfterSolves ==
    \A i \in Threads : \A m \in 2..NumFetch(i) :
        (/\ \A k \in 1..(m - 1) : GatedFetchWithImage(CallsOf(i, "fetch")[k])
         /\ UngatedFetch(CallsOf(i, "fetch")[m]))
        => /\ NumFetch(i) = m
           /\ NumSolve(i) = m - 1
           /\ pc[i] = "done" =>
                 /\ NumAnalyze(i) = 1
                 /\ CallsOf(i, "analyze")[1].args =
                       << CallsOf(i, "fetch")[m].ret.value.html, query[i],
                          CallsOf(i, "fetch")[m].ret.value.images >>
                 /\ outcome[i] = CallsOf(i, "analyze")[1].ret

\* the page stops being gated on the last permitted refetch, and is analysed
C5_Witness ==
    \E i \in Threads :
        /\ pc[i] = "done"
        /\ max_captcha_attempts >= 2
        /\ NumSolve(i) = max_captcha_attempts
        /\ NumFetch(i) = max_captcha_attempts + 1
        /\ UngatedFetch(LastFetch(i))
        /\ outcome[i].kind = "return"

(***************************************************************************)
(* C6: a finished invocation has failed with the attempts-exceeded error   *)
(* only if its most recent fetch returned gated html and it has made       *)
(* exactly max_captcha_attempts solve calls.                               *)
(***************************************************************************)
C6_ExceededOnlyAfterAllSolves ==
    \A i \in Threads :
        (pc[i] = "done" /\ FailedWithAttemptsExceeded(i))
        => /\ GatedFetch(LastFetch(i))
           /\ NumSolve(i) = max_captcha_attempts

C8_FetchFailurePropagates ==
    \A i \in Threads : \A k \in 1..Len(calls[i]) :
        (calls[i][k].op = "fetch" /\ calls[i][k].ret.kind = "raise")
        => /\ pc[i] \in {"exit", "done"}
           /\ \A m \in (k + 1)..Len(calls[i]) : calls[i][m].op = "exit"
           /\ NumAnalyze(i) = 0
           /\ NumFetch(i) = 1 => NumSolve(i) = 0
           /\ pc[i] = "done" => outcome[i] = calls[i][k].ret

\* a refetch raised after one solve, and the caller got its exception
C8_Witness ==
    \E i \in Threads :
        /\ pc[i] = "done"
        /\ NumFetch(i) = 2
        /\ NumSolve(i) = 1
        /\ LastFetch(i).ret.kind = "raise"
        /\ outcome[i] = LastFetch(i).ret

(***************************************************************************)
(* C9: when a solve_captcha call raises, the invocation makes no further   *)
(* solve, fetch or analyze call (only __exit__ follows), and the caller    *)
(* gets that same exception.                                               *)
(***************************************************************************)
C9_SolveFailurePropagates ==
    \A i \in Threads : \A k \in 1..Len(calls[i]) :
        (calls[i][k].op = "solve" /\ calls[i][k].ret.kind = "raise")
        => /\ pc[i] \in {"exit", "done"}
           /\ \A m \in (k + 1)..Len(calls[i]) : calls[i][m].op = "exit"
           /\ NumAnalyze(i) = 0
           /\ pc[i] = "done" => outcome[i] = calls[i][k].ret

\* the second solve raised, and the caller got its exception
C9_Witness ==
    \E i \in Threads :
        /\ pc[i] = "done"
        /\ NumSolve(i) = 2
        /\ CallsOf(i, "solve")[2].ret.kind = "raise"
        /\ outcome[i] = CallsOf(i, "solve")[2].ret

(***************************************************************************)
(* C10: for every model response that is present but does not parse into   *)
(* a JSON object, analyze_content returns (does not raise) a result whose  *)
(* answer is the raw response text, whose reasoning is the raw-response    *)
(* notice and whose html_element is None.                                  *)
(***************************************************************************)
C10_UnparseableDegradesGracefully ==
    \A i \in Threads : \A k \in 1..NumAnalyze(i) :
        LET c == CallsOf(i, "analyze")[k]
        IN  (/\ c.inner.kind = "return"
             /\ json_loads(ResponseContent(c.inner.value)).type # "dict")
            => /\ c.ret.kind = "return"
               /\ c.ret.value =
                     AnalysisResult(ResponseContent(c.inner.value),
                                    "Raw response from model (not in expected JSON format)",
                                    None)

(***************************************************************************)
(* C11: every result that analyze_content returns has an answer and a      *)
(* reasoning that are not None, whatever the model responded (also a JSON  *)
(* object whose answer or reasoning is null or missing).                   *)
(***************************************************************************)
C11_AnswerAndReasoningNotNone ==
    \A i \in Threads : \A k \in 1..NumAnalyze(i) :
        LET c == CallsOf(i, "analyze")[k]
        IN  c.ret.kind = "return"
            => /\ c.ret.value.answer # None
               /\ c.ret.value.reasoning # None

(***************************************************************************)
(* C12: when the llm.invoke of analyze_content raises, analyze_content     *)
(* raises that same exception and so does process_query, which returns no  *)
(* result; when llm.invoke returns a response, however malformed,          *)
(* analyze_content does not raise.                                         *)
(***************************************************************************)
C12_OnlyInvocationFailureFails ==
    \A i \in Threads : \A k \in 1..NumAnalyze(i) :
        LET c == CallsOf(i, "analyze")[k]
        IN  /\ c.inner.kind = "raise"
               => /\ c.ret = c.inner
                  /\ pc[i] = "done" => outcome[i] = c.inner
            /\ c.inner.kind = "return" => c.ret.kind = "return"

(***************************************************************************)
(* C13 (as stated): a failure of process_query has one of four mutually    *)
(* distinguishable types, one per origin (fetch, solve, analysis,          *)
(* attempts exceeded): the type of the exception the caller gets is a type *)
(* that no other origin produces.                                          *)
(***************************************************************************)
FailureOrigins == {"fetch", "solve", "analyze", "exceeded"}

\* the exception types each origin can produce
TypesOf(origin) ==
    CASE origin = "fetch" ->
            { e.type : e \in FetchExceptions \cup {BrowserNotInitialized, BrowserClosed} }
      [] origin = "solve" -> { e.type : e \in SolveExceptions }
      [] origin = "analyze" -> { e.type : e \in InvokeExceptions } \cup {"AttributeError"}
      [] origin = "exceeded" -> { AttemptsExceeded(0).type }

\* the calls of the invocation that raised
RaisedCalls(i) == SelectSeq(calls[i], LAMBDA c : c.ret.kind = "raise")

\* where the failure of a failed invocation comes from
FailureOrigin(i) == IF RaisedCalls(i) = <<>> THEN "exceeded" ELSE RaisedCalls(i)[1].op

Collab(i) == SelectSeq(calls[i], LAMBDA c : c.op \in {"fetch", "solve", "analyze"})

\* what holds of the k-th collaborator call of invocation i whether or not
\* the invocation has finished
ProtocolStep(i, k) ==
    LET s == Collab(i)
        c == s[k]
    IN  /\ k = 1 => c.op = "fetch"
        /\ c.op = "fetch" => /\ c.args = <<url[i]>>
                             /\ k > 1 => s[k - 1].op = "solve"
        /\ c.op = "solve" => /\ k > 1
                             /\ s[k - 1].op = "fetch"
                             /\ GatedFetch(s[k - 1])
        /\ c.op = "analyze" => /\ k = Len(s)
                               /\ k > 1
                               /\ s[k - 1].op = "fetch"
                               /\ UngatedFetch(s[k - 1]) \/ ~s[k - 1].inner.keyed
        /\ c.ret.kind = "raise" => k = Len(s)

\* the k-th collaborator call is directly followed by a fetch of the url
FollowedByRefetch(i, k) ==
    /\ k < Len(Collab(i))
    /\ Collab(i)[k + 1].op = "fetch"
    /\ Collab(i)[k + 1].args = <<url[i]>>

(***************************************************************************)
(* C19 (as stated): in a finished invocation the collaborator calls are    *)
(* fetch, (solve, fetch)*, [analyze]: every solve comes directly after a   *)
(* gated fetch and is directly followed by a refetch of the same url,      *)
(* every fetch uses the url of the invocation, analyze is called at most   *)
(* once and last.                                                          *)
(***************************************************************************)
C19_EverySolveRefetched ==
    \A i \in Threads :
        pc[i] = "done"
        => \A k \in 1..Len(Collab(i)) :
              /\ ProtocolStep(i, k)
              /\ Collab(i)[k].op = "solve" => FollowedByRefetch(i, k)

(***************************************************************************)
(* C19 (amended): the collaborator calls of an invocation are fetch,       *)
(* (solve, fetch)*, [analyze]: the first is a fetch, every solve comes     *)
(* directly after a fetch detected as gated, every solve that returns is   *)
(* directly followed by a refetch of the same url, a call that raises is   *)
(* the last one, every fetch uses the url of the invocation, analyze is    *)
(* called at most once, as the last call, directly after a fetch that is   *)
(* not gated or has no captcha-keyed image, and the attempts-exceeded      *)
(* failure comes only after a fetch detected as gated.                     *)
(***************************************************************************)
C19_Protocol ==
    \A i \in Threads :
        /\ \A k \in 1..Len(Collab(i)) :
              /\ ProtocolStep(i, k)
              /\ (/\ Collab(i)[k].op = "solve"
                  /\ Collab(i)[k].ret.kind = "return"
                  /\ pc[i] # "refetch") => FollowedByRefetch(i, k)
        /\ (pc[i] = "done" /\ FailedWithAttemptsExceeded(i))
           => GatedFetch(Collab(i)[Len(Collab(i))])

\* a finished invocation that went fetch, solve, fetch, solve, fetch, analyze
C19_Witness ==
    \E i \in Threads :
        /\ pc[i] = "done"
        /\ Len(Collab(i)) = 6
        /\ Collab(i)[2].op = "solve"
        /\ Collab(i)[4].op = "solve"
        /\ Collab(i)[6].op = "analyze"

(***************************************************************************)
(* The entries of an image map whose key contains 'captcha' in any case,   *)
(* in the map's iteration order                                            *)
(***************************************************************************)
CaptchaAnyCase ==
    << {"c", "C"}, {"a", "A"}, {"p", "P"}, {"t", "T"}, {"c", "C"}, {"h", "H"}, {"a", "A"} >>

KeyedEntries(imgs) ==
    SelectSeq(imgs, LAMBDA e :
        \E p \in 1..(Len(e[1]) - Len(CaptchaAnyCase) + 1) :
            \A q \in 1..Len(CaptchaAnyCase) : e[1][p + q - 1] \in CaptchaAnyCase[q])

\* the loop body has run on the most recent fetch and no solve has been
\* logged for it
BodyRanOnLastFetch(i) ==
    /\ Collab(i) # <<>>
    /\ Collab(i)[Len(Collab(i))].op = "fetch"
    /\ captcha_attempts[i] > NumSolve(i)

(***************************************************************************)
(* C20: every solve_captcha call gets as challenge the value of the first  *)
(* entry, in iteration order, of the most recent fetch's image map whose   *)
(* key contains 'captcha' case-insensitively, and as context the html of   *)
(* that fetch; once the loop body has run on a fetch, solve_captcha is     *)
(* about to be called if and only if that fetch's map has such an entry.   *)
(***************************************************************************)
C20_ChallengeIsFirstCaptchaImage ==
    \A i \in Threads :
        /\ \A k \in 1..Len(Collab(i)) :
              Collab(i)[k].op = "solve"
              => /\ k > 1
                 /\ Collab(i)[k - 1].ret.kind = "return"
                 /\ LET f == Collab(i)[k - 1].ret.value
                    IN  /\ KeyedEntries(f.images) # <<>>
                        /\ Collab(i)[k].args = <<KeyedEntries(f.images)[1][2], f.html>>
        /\ BodyRanOnLastFetch(i)
           => (pc[i] = "solve" <=> KeyedEntries(LastFetch(i).ret.value.images) # <<>>)

\* a solve call made for a fetch whose image map has several captcha-keyed entries
C20_Witness ==
    \E i \in Threads : \E k \in 2..Len(Collab(i)) :
        /\ Collab(i)[k].op = "solve"
        /\ Len(KeyedEntries(Collab(i)[k - 1].ret.value.images)) >= 2

(***************************************************************************)
(* WebScraperTool.detect_captcha on its own: the documents it is given     *)
(* are sequences of at most MaxNodes of these nodes.                       *)
(***************************************************************************)
MaxNodes == 2

Nodes ==
    { TextNode(s_hi),
      TextNode(s_VerifyHuman),
      TextNode(s_Not_),
      TextNode(s_not_nl),
      Element(s_span, <<>>, s_robot),
      Element(s_span, << <<s_class, s_captcha>> >>, <<>>),
      Element(s_div, << <<s_class, s_Captcha>> >>, <<>>),
      Element(s_img, << <<s_src, s_Captcha_png>> >>, <<>>),
      Element(s_img, << <<s_alt, s_logo>> >>, <<>>),
      Element(s_input, << <<s_name, s_prove>>, <<s_value, s_human>> >>, <<>>) }

Docs == UNION { [1..n -> Nodes] : n \in 1..MaxNodes }

\* a detect_captcha call is about to be made, on a tool that is new or
\* inside its with block
InitDetect ==
    /\ max_captcha_attempts = MaxAttempts
    /\ ScraperNew \/ ScraperEntered
    /\ Idle
    /\ doc \in Docs
    /\ detected = NoOutcome
    /\ NoAsk
    /\ NoTool
    /\ NoSolver
    /\ NoRun

\* lines 123-151: the call returns its boolean and assigns nothing
DetectCaptcha ==
    /\ detected.kind = "none"
    /\ doc # <<>>
    /\ detected' = Return(detect_captcha(doc))
    /\ UNCHANGED <<max_captcha_attempts, scraper_vars, ncalls, pc, url, query,
                   captcha_attempts, html, images, captcha_image, pending, outcome,
                   calls, doc, api_vars, tool_vars, solver_vars, run_vars>>

NextDetect == DetectCaptcha

SpecDetect == InitDetect /\ [][NextDetect]_vars

(***************************************************************************)
(* Where a signature occurs in a document                                  *)
(***************************************************************************)
\* the same letter, in either case
EqIgnoreCase(a, b) ==
    \/ a = b
    \/ \E k \in 1..26 : {a, b} = {UpperLetters[k], LowerLetters[k]}

\* the literal part stands in s at position a, in any case
PartAt(part, s, a) ==
    /\ a + Len(part) - 1 <= Len(s)
    /\ \A k \in 1..Len(part) : EqIgnoreCase(s[a + k - 1], part[k])

\* the signature occurs in s: its literal part, or its two literal parts in
\* order with no line break between them
SignatureIn(sig, s) ==
    IF Len(sig) = 1
    THEN \E a \in 1..Len(s) : PartAt(sig[1], s, a)
    ELSE \E a \in 1..Len(s) :
            /\ PartAt(sig[1], s, a)
            /\ \E b \in (a + Len(sig[1]))..Len(s) :
                  /\ PartAt(sig[2], s, b)
                  /\ \A k \in (a + Len(sig[1]))..(b - 1) : s[k] # "\n"

AnySignatureIn(s) == \E p \in 1..Len(captcha_patterns) : SignatureIn(captcha_patterns[p], s)

SignatureInText(d) == AnySignatureIn(get_text(d))

\* a signature occurs in the markup of an element with one of the tags
SignatureInMarkupOf(d, tags) ==
    \E k \in 1..Len(d) :
        /\ d[k].kind = "elem"
        /\ d[k].tag \in tags
        /\ AnySignatureIn(Markup(d[k]))

SignatureInImgAttr(d) ==
    \E k \in 1..Len(d) :
        /\ d[k].kind = "elem"
        /\ d[k].tag = s_img
        /\ \E a \in 1..Len(d[k].attrs) :
              /\ d[k].attrs[a][1] \in {s_src, s_alt}
              /\ AnySignatureIn(d[k].attrs[a][2])

TagsOf(d) == { d[k].tag : k \in { n \in 1..Len(d) : d[n].kind = "elem" } }

\* the tags whose markup detect_captcha looks at
CheckedTags == {s_img, s_input, s_form, s_div}

(***************************************************************************)
(* C16 (as stated): detect_captcha returns true whenever a signature       *)
(* occurs in the document's text, in the markup of any element whatever    *)
(* its tag, or in the src or alt of an img.                                *)
(***************************************************************************)
C16_DetectsSignatureInAnyTag ==
    detected.kind = "return"
    => ((\/ SignatureInText(doc)
         \/ SignatureInMarkupOf(doc, TagsOf(doc))
         \/ SignatureInImgAttr(doc)) => detected.value = TRUE)

(***************************************************************************)
(* C16 (amended): detect_captcha returns true whenever a signature occurs  *)
(* in the document's text, in the markup of an img, input, form or div     *)
(* element, or in the src or alt of an img.                                *)
(***************************************************************************)
C16_DetectsSignatureInCheckedTags ==
    detected.kind = "return"
    => ((\/ SignatureInText(doc)
         \/ SignatureInMarkupOf(doc, CheckedTags)
         \/ SignatureInImgAttr(doc)) => detected.value = TRUE)

\* detected from the markup of a div alone: the text has no signature
C16_Witness ==
    /\ detected.kind = "return"
    /\ detected.value = TRUE
    /\ ~SignatureInText(doc)
    /\ SignatureInMarkupOf(doc, {s_div})
    /\ ~SignatureInImgAttr(doc)

(***************************************************************************)
(* C17: detect_captcha returns false whenever no signature occurs in the   *)
(* document's text, in the markup of any element, or in the src or alt of  *)
(* an img.                                                                 *)
(***************************************************************************)
C17_NoSignatureNotDetected ==
    detected.kind = "return"
    => (~(\/ SignatureInText(doc)
          \/ SignatureInMarkupOf(doc, TagsOf(doc))
          \/ SignatureInImgAttr(doc)) => detected.value = FALSE)

\* not detected: 'not' and 'robot' are there, with a line break between them
C17_Witness ==
    /\ detected.kind = "return"
    /\ detected.value = FALSE
    /\ doc = << TextNode(s_not_nl), Element(s_span, <<>>, s_robot) >>

(***************************************************************************)
(* POST /ask (api/main.py)                                                 *)
(***************************************************************************)
\* valid QueryRequest bodies
Requests ==
    { [url |-> u, query |-> q] :
         u \in {"https://example.com", "https://example.org/page"},
         q \in {"What is the price?", "What is this?"} }

\* str(request.url): the HttpUrl written back, with "/" for an empty path
StrUrl(u) == IF u = "https://example.com" THEN "https://example.com/" ELSE u

\* Python values crew.kickoff() can return: a str, a list of task outputs,
\* an output object with a raw_output attribute, an object without one
\* (value: its str())
PyStr(text) == [type |-> "str", value |-> text]
PyList(items) == [type |-> "list", value |-> items]
PyCrewOutput(raw_output) == [type |-> "CrewOutput", value |-> raw_output]
PyObject(str) == [type |-> "object", value |-> str]

KickoffReturns ==
    { PyStr(t) : t \in {TextFull, TextAnswerOnly, TextNoAnswer, TextNullFields,
                        TextNotJson, TextJsonArray, TextJsonNumber} }
    \cup { PyList(<<PyStr("<html></html>"), PyStr(TextFull)>>),
           PyList(<<PyStr("<html></html>"), PyStr(TextNotJson)>>),
           PyList(<<PyStr(TextFull)>>),
           PyCrewOutput("The answer is 42"),
           PyObject("<TaskOutput>") }

CreateAgentsExceptions == { Exc("ValidationError", "1 validation error for Agent") }
KickoffExceptions ==
    { Exc("Exception", "Connection error"),
      Exc("ValidationError", "2 validation errors for Crew") }

\* str(x) for the values that reach line 100
PyStrOf(x) ==
    CASE x.type = "list" -> TextJsonArray
      [] x.type = "int" -> TextJsonNumber
      [] OTHER -> x.value

\* lines 73-78: analysis_result = result[1] for a list, else result
AnalysisOf(kicked) ==
    IF kicked.type = "list"
    THEN IF Len(kicked.value) >= 2
         THEN Return(kicked.value[2])
         ELSE Raise(Exc("IndexError", "list index out of range"))
    ELSE Return(kicked)

\* lines 81-95: a str is parsed as JSON, or becomes the answer when it does
\* not parse; an object with raw_output becomes a dict
ParsedAnalysis(analysis_result) ==
    IF analysis_result.type = "str"
    THEN LET parsed == json_loads(analysis_result.value)
         IN  IF parsed.type = "JSONDecodeError"
             THEN JsonDict([answer |-> analysis_result.value,
                            reasoning |-> "Direct response from agent"])
             ELSE parsed
    ELSE IF analysis_result.type = "CrewOutput"
    THEN JsonDict([answer |-> analysis_result.value,
                   reasoning |-> "Response from agent",
                   html_element |-> None])
    ELSE analysis_result

\* lines 98-103: anything that is not a dict becomes one
AsDict(analysis_result) ==
    IF analysis_result.type = "dict"
    THEN analysis_result.value
    ELSE [answer |-> PyStrOf(analysis_result),
          reasoning |-> "Direct response from agent",
          html_element |-> None]

\* lines 105-111: the dict ask_page returns
AskBody(req, d) ==
    [url |-> StrUrl(req.url),
     query |-> req.query,
     answer |-> DictGet(d, "answer", "Could not find an answer"),
     reasoning |-> DictGet(d, "reasoning", "No reasoning provided"),
     html_element |-> DictGet(d, "html_element", None)]

\* str(e)
StrExc(e) == e.msg

\* the handler's except clause answering 200 with the default body
ErrorResponse_Swallowed(req, e) ==
    [status |-> 200, body |-> AskBody(req, << >>)]

\* lines 113-117: HTTPException(status_code=500, detail=f"Error processing request: {str(e)}")
ErrorResponse(req, e) ==
    [status |-> 500, body |-> [detail |-> <<"Error processing request: ", StrExc(e)>>]]

\* a valid request arrives (also after an earlier request was answered)
PostAsk ==
    /\ api_pc \in {"idle", "responded"}
    /\ request' \in Requests
    /\ api_result' = NoOutcome
    /\ response' = NoResponse
    /\ api_pc' = "create_agents"
    /\ UNCHANGED <<max_captcha_attempts, scraper_vars, ncalls, pc, url, query,
                   captcha_attempts, html, images, captcha_image, pending, outcome,
                   calls, detect_vars, tool_vars, solver_vars, run_vars>>

\* line 45: agents = create_agents(llm)
CreateAgents ==
    /\ api_pc = "create_agents"
    /\ \/ api_pc' = "kickoff" /\ UNCHANGED api_result
       \/ \E e \in CreateAgentsExceptions :
             api_result' = Raise(e) /\ api_pc' = "except"
    /\ UNCHANGED <<max_captcha_attempts, scraper_vars, ncalls, pc, url, query,
                   captcha_attempts, html, images, captcha_image, pending, outcome,
                   calls, detect_vars, tool_vars, solver_vars, run_vars, request, response>>

\* lines 48-70: the tasks, the Crew and result = crew.kickoff()
Kickoff ==
    /\ api_pc = "kickoff"
    /\ \/ \E v \in KickoffReturns :
             api_result' = Return(v) /\ api_pc' = "extract"
       \/ \E e \in KickoffExceptions :
             api_result' = Raise(e) /\ api_pc' = "except"
    /\ UNCHANGED <<max_captcha_attempts, scraper_vars, ncalls, pc, url, query,
                   captcha_attempts, html, images, captcha_image, pending, outcome,
                   calls, detect_vars, tool_vars, solver_vars, run_vars, request, response>>

\* lines 73-111: the answer is taken out of the result and returned
Extract ==
    /\ api_pc = "extract"
    /\ LET analysis_result == AnalysisOf(api_result.value)
       IN  IF analysis_result.kind = "raise"
           THEN /\ api_result' = analysis_result
                /\ api_pc' = "except"
                /\ UNCHANGED response
           ELSE /\ response' =
                      [status |-> 200,
                       body |-> AskBody(request, AsDict(ParsedAnalysis(analysis_result.value)))]
                /\ api_pc' = "responded"
                /\ UNCHANGED api_result
    /\ UNCHANGED <<max_captcha_attempts, scraper_vars, ncalls, pc, url, query,
                   captcha_attempts, html, images, captcha_image, pending, outcome,
                   calls, detect_vars, tool_vars, solver_vars, run_vars, request>>

\* lines 113-117: except Exception as e
Except ==
    /\ api_pc = "except"
    /\ response' = ErrorResponse(request, api_result.value)
    /\ api_pc' = "responded"
    /\ UNCHANGED <<max_captcha_attempts, scraper_vars, ncalls, pc, url, query,
                   captcha_attempts, html, images, captcha_image, pending, outcome,
                   calls, detect_vars, tool_vars, solver_vars, run_vars, request, api_result>>

\* the application after start-up: no request yet, no orchestrator in use
InitApi ==
    /\ max_captcha_attempts = MaxAttempts
    /\ ScraperNew
    /\ Idle
    /\ NoDetect
    /\ NoAsk
    /\ NoTool
    /\ NoSolver
    /\ NoRun

NextApi ==
    \/ PostAsk
    \/ CreateAgents
    \/ Kickoff
    \/ Extract
    \/ Except

SpecApi == InitApi /\ [][NextApi]_vars

(***************************************************************************)
(* C14: when a valid POST /ask has been answered, process_query has been   *)
(* called exactly once, with the request's url and query, and the response *)
(* is a 200 whose body echoes url and query and carries the answer,        *)
(* reasoning and html_element of process_query's result.                   *)
(***************************************************************************)
C14_AskCallsProcessQueryOnce ==
    api_pc = "responded"
    => /\ ncalls = 1
       /\ \E i \in Threads :
             /\ pc[i] = "done"
             /\ url[i] = request.url
             /\ query[i] = request.query
             /\ outcome[i].kind = "return"
                => /\ response.status = 200
                   /\ response.body.url = StrUrl(request.url)
                   /\ response.body.query = request.query
                   /\ response.body.answer = outcome[i].value.answer
                   /\ response.body.reasoning = outcome[i].value.reasoning
                   /\ response.body.html_element = outcome[i].value.html_element

C21_AnalyzeGetsLatestFetch ==
    \A i \in Threads : \A k \in 1..Len(Collab(i)) :
        Collab(i)[k].op = "analyze"
        => /\ NumFetch(i) >= 1
           /\ LastFetch(i).ret.kind = "return"
           /\ Collab(i)[k].args =
                 <<LastFetch(i).ret.value.html, query[i], LastFetch(i).ret.value.images>>

\* analysed after a refetch whose html and images both differ from those of
\* the first fetch
C21_Witness ==
    \E i \in Threads :
        /\ pc[i] = "done"
        /\ NumAnalyze(i) = 1
        /\ NumFetch(i) >= 2
        /\ CallsOf(i, "fetch")[1].ret.value.html # LastFetch(i).ret.value.html
        /\ CallsOf(i, "fetch")[1].ret.value.images # LastFetch(i).ret.value.images

(***************************************************************************)
(* C22: analyze_content is called on gated html only when the image map   *)
(* of that fetch has no captcha-keyed entry; an invocation whose latest    *)
(* fetch is gated and has a captcha-keyed image goes on with a solve or    *)
(* fails with attempts exceeded, and never analyses.                       *)
(***************************************************************************)
C22_GatedWithImageNeverAnalysed ==
    \A i \in Threads :
        /\ \A k \in 2..Len(Collab(i)) :
              (Collab(i)[k].op = "analyze" /\ Collab(i)[k - 1].inner.gated)
              => KeyedEntries(Collab(i)[k - 1].ret.value.images) = <<>>
        /\ (/\ pc[i] = "done"
            /\ NumFetch(i) >= 1
            /\ GatedFetchWithImage(LastFetch(i)))
           => /\ NumAnalyze(i) = 0
              /\ \/ FailedWithAttemptsExceeded(i)
                 \/ /\ Collab(i)[Len(Collab(i))].op = "solve"
                    /\ outcome[i] = Collab(i)[Len(Collab(i))].ret

\* attempts used up on a page that is still gated and still shows its image
C22_Witness ==
    \E i \in Threads :
        /\ pc[i] = "done"
        /\ NumSolve(i) >= 1
        /\ GatedFetchWithImage(LastFetch(i))
        /\ FailedWithAttemptsExceeded(i)

(***************************************************************************)
(* Two runs of process_query, one after the other on the same             *)
(* orchestrator: thread 1 makes the first call; thread 2 then makes the    *)
(* same call, and its collaborators behave as they did for thread 1,       *)
(* except that solve_captcha is free in the text it returns.               *)
(***************************************************************************)
\* two outcomes are the same (the kind is compared first)
SameOutcome(a, b) == a.kind = b.kind /\ (a.kind # "none" => a.value = b.value)

\* the newest call with the operation in the log of thread i repeats what
\* the corresponding call of thread 1 got from its collaborator
Replayed(i, log, op) ==
    LET mine == SelectSeq(log, LAMBDA c : c.op = op)
        theirs == CallsOf(1, op)
        k == Len(mine)
    IN  (i # 1 /\ k <= Len(theirs))
        => CASE op = "fetch" -> SameOutcome(mine[k].ret, theirs[k].ret)
             [] op = "solve" -> /\ mine[k].ret.kind = theirs[k].ret.kind
                                /\ mine[k].ret.kind = "raise" => mine[k].ret = theirs[k].ret
             [] op = "analyze" -> SameOutcome(mine[k].inner, theirs[k].inner)

\* the orchestrators of the two-run comparison have at most this many attempts
MaxAttemptsTwoRuns == 1

InitTwoRuns ==
    /\ max_captcha_attempts \in 0..MaxAttemptsTwoRuns
    /\ ScraperNew
    /\ Idle
    /\ NoDetect
    /\ NoAsk
    /\ NoTool
    /\ NoSolver
    /\ NoRun

FirstCall == pc[1] = "idle" /\ ProcessQuery(1)

SecondCall ==
    /\ pc[1] = "done"
    /\ pc[2] = "idle"
    /\ ProcessQuery(2)
    /\ url'[2] = url[1]
    /\ query'[2] = query[1]

NextTwoRuns ==
    \/ FirstCall /\ UNCHANGED <<detect_vars, api_vars, tool_vars, solver_vars, run_vars>>
    \/ SecondCall /\ UNCHANGED <<detect_vars, api_vars, tool_vars, solver_vars, run_vars>>
    \/ \E i \in Threads : Enter(i) /\ UNCHANGED <<detect_vars, api_vars, tool_vars, solver_vars, run_vars>>
    \/ \E i \in Threads : Fetch(i) /\ Replayed(i, calls'[i], "fetch") /\ UNCHANGED <<detect_vars, api_vars, tool_vars, solver_vars, run_vars>>
    \/ \E i \in Threads : WhileTest(i) /\ UNCHANGED <<detect_vars, api_vars, tool_vars, solver_vars, run_vars>>
    \/ \E i \in Threads : LoopBody(i) /\ UNCHANGED <<detect_vars, api_vars, tool_vars, solver_vars, run_vars>>
    \/ \E i \in Threads : Solve(i) /\ Replayed(i, calls'[i], "solve") /\ UNCHANGED <<detect_vars, api_vars, tool_vars, solver_vars, run_vars>>
    \/ \E i \in Threads : Refetch(i) /\ Replayed(i, calls'[i], "fetch") /\ UNCHANGED <<detect_vars, api_vars, tool_vars, solver_vars, run_vars>>
    \/ \E i \in Threads : CheckExceeded(i) /\ UNCHANGED <<detect_vars, api_vars, tool_vars, solver_vars, run_vars>>
    \/ \E i \in Threads : Analyze(i) /\ Replayed(i, calls'[i], "analyze") /\ UNCHANGED <<detect_vars, api_vars, tool_vars, solver_vars, run_vars>>
    \/ \E i \in Threads : Exit(i) /\ UNCHANGED <<detect_vars, api_vars, tool_vars, solver_vars, run_vars>>

SpecTwoRuns == InitTwoRuns /\ [][NextTwoRuns]_vars

\* the texts the solver returned in a run, in order
SolverTexts(i) ==
    [k \in 1..NumSolve(i) |->
        IF CallsOf(i, "solve")[k].ret.kind = "return"
        THEN CallsOf(i, "solve")[k].ret.value ELSE None]

(***************************************************************************)
(* C23: the second run, which differs from the first only in the texts     *)
(* the solver returns, makes the same collaborator calls with the same     *)
(* arguments in the same order, and ends with the same outcome.            *)
(***************************************************************************)
C23_SolutionDiscarded ==
    LET first == Collab(1)
        second == Collab(2)
    IN  /\ Len(second) <= Len(first)
        /\ \A k \in 1..Len(second) :
              /\ second[k].op = first[k].op
              /\ second[k].args = first[k].args
        /\ pc[2] = "done"
           => /\ Len(second) = Len(first)
              /\ SameOutcome(outcome[2], outcome[1])

\* both runs finished after a solve and a refetch each, and the solver's
\* texts differed
C23_Witness ==
    /\ pc[1] = "done"
    /\ pc[2] = "done"
    /\ NumSolve(1) >= 1
    /\ NumSolve(2) >= 1
    /\ NumFetch(2) >= 2
    /\ SolverTexts(1)[1] # None
    /\ SolverTexts(1)[1] # SolverTexts(2)[1]

(***************************************************************************)
(* Termination.  process_query is sequential code: once called, its next   *)
(* statement runs, and every collaborator call returns or raises.  So each *)
(* started invocation keeps taking steps (weak fairness of its steps);     *)
(* nothing obliges a caller to make a call.                                *)
(***************************************************************************)
Step(i) ==
    /\ \/ Enter(i)
       \/ Fetch(i)
       \/ WhileTest(i)
       \/ LoopBody(i)
       \/ Solve(i)
       \/ Refetch(i)
       \/ CheckExceeded(i)
       \/ Analyze(i)
       \/ Exit(i)
    /\ UNCHANGED <<detect_vars, api_vars, tool_vars, solver_vars, run_vars>>

\* Weak fairness of Step(i), WF_vars(Step(i)), written out: Step(i) is
\* enabled exactly while the invocation is under way (every statement of
\* process_query, and every collaborator call, has an outcome), so
\* ENABLED <<Step(i)>>_vars is  pc[i] \notin {"idle", "done"}.
Fair(i) == []<>(pc[i] \in {"idle", "done"}) \/ []<><<Step(i)>>_vars

\* one call of process_query
NextOneCall ==
    \/ FirstCall /\ UNCHANGED <<detect_vars, api_vars, tool_vars, solver_vars, run_vars>>
    \/ \E i \in Threads : Enter(i) /\ UNCHANGED <<detect_vars, api_vars, tool_vars, solver_vars, run_vars>>
    \/ \E i \in Threads : Fetch(i) /\ UNCHANGED <<detect_vars, api_vars, tool_vars, solver_vars, run_vars>>
    \/ \E i \in Threads : WhileTest(i) /\ UNCHANGED <<detect_vars, api_vars, tool_vars, solver_vars, run_vars>>
    \/ \E i \in Threads : LoopBody(i) /\ UNCHANGED <<detect_vars, api_vars, tool_vars, solver_vars, run_vars>>
    \/ \E i \in Threads : Solve(i) /\ UNCHANGED <<detect_vars, api_vars, tool_vars, solver_vars, run_vars>>
    \/ \E i \in Threads : Refetch(i) /\ UNCHANGED <<detect_vars, api_vars, tool_vars, solver_vars, run_vars>>
    \/ \E i \in Threads : CheckExceeded(i) /\ UNCHANGED <<detect_vars, api_vars, tool_vars, solver_vars, run_vars>>
    \/ \E i \in Threads : Analyze(i) /\ UNCHANGED <<detect_vars, api_vars, tool_vars, solver_vars, run_vars>>
    \/ \E i \in Threads : Exit(i) /\ UNCHANGED <<detect_vars, api_vars, tool_vars, solver_vars, run_vars>>

SpecFair == Init /\ [][NextOneCall]_vars /\ \A i \in Threads : Fair(i)

(***************************************************************************)
(* C24: every invocation of process_query that has been started comes to   *)
(* its end, a return or a raise, whatever max_captcha_attempts is and      *)
(* whatever the fetches, solves and the analysis return or raise.          *)
(***************************************************************************)
C24_Terminates == \A i \in Threads : (pc[i] = "enter") ~> (pc[i] = "done")

\* an invocation that ended after using every attempt it had, each on a
\* page with a challenge image
C24_Witness ==
    \E i \in Threads :
        /\ pc[i] = "done"
        /\ max_captcha_attempts >= 2
        /\ captcha_attempts[i] = max_captcha_attempts
        /\ NumSolve(i) = max_captcha_attempts

(***************************************************************************)
(* Interleaved invocations: the threads call process_query on the same     *)
(* orchestrator, hence on the one WebScraperTool of create_agents, and     *)
(* their steps interleave.  The pages are plain or show a challenge image, *)
(* navigation does not fail, the solver and the analysis model answer.     *)
(***************************************************************************)
MaxAttemptsInterleaved == 1

InterleavedFetchResults ==
    { FetchResult(HtmlPlain, <<>>),
      FetchResult(HtmlCaptchaImg, << <<s_Captcha_png, s_data_png_1>> >>) }

\* the newest call in the log got one of the collaborator behaviours above
InterleavedInput(log) ==
    LET c == log[Len(log)]
    IN  CASE c.op = "fetch" ->
                IF c.ret.kind = "return"
                THEN c.ret.value \in InterleavedFetchResults
                ELSE c.ret.value \in {BrowserNotInitialized, BrowserClosed}
          [] c.op = "solve" -> c.ret.kind = "return" /\ c.ret.value = "CAPTCHA123"
          [] c.op = "analyze" ->
                c.inner.kind = "return" /\ c.inner.value = LLMResponse("message", TextFull)

InitInterleaved ==
    /\ max_captcha_attempts \in 0..MaxAttemptsInterleaved
    /\ ScraperNew
    /\ Idle
    /\ NoDetect
    /\ NoAsk
    /\ NoTool
    /\ NoSolver
    /\ NoRun

\* the two threads whose invocations interleave
TwoCallers == {1, 2}

NextInterleaved ==
    \/ \E i \in TwoCallers : ProcessQuery(i) /\ UNCHANGED <<detect_vars, api_vars, tool_vars, solver_vars, run_vars>>
    \/ \E i \in Threads : Enter(i) /\ UNCHANGED <<detect_vars, api_vars, tool_vars, solver_vars, run_vars>>
    \/ \E i \in Threads : Fetch(i) /\ InterleavedInput(calls'[i]) /\ UNCHANGED <<detect_vars, api_vars, tool_vars, solver_vars, run_vars>>
    \/ \E i \in Threads : WhileTest(i) /\ UNCHANGED <<detect_vars, api_vars, tool_vars, solver_vars, run_vars>>
    \/ \E i \in Threads : LoopBody(i) /\ UNCHANGED <<detect_vars, api_vars, tool_vars, solver_vars, run_vars>>
    \/ \E i \in Threads : Solve(i) /\ InterleavedInput(calls'[i]) /\ UNCHANGED <<detect_vars, api_vars, tool_vars, solver_vars, run_vars>>
    \/ \E i \in Threads : Refetch(i) /\ InterleavedInput(calls'[i]) /\ UNCHANGED <<detect_vars, api_vars, tool_vars, solver_vars, run_vars>>
    \/ \E i \in Threads : CheckExceeded(i) /\ UNCHANGED <<detect_vars, api_vars, tool_vars, solver_vars, run_vars>>
    \/ \E i \in Threads : Analyze(i) /\ InterleavedInput(calls'[i]) /\ UNCHANGED <<detect_vars, api_vars, tool_vars, solver_vars, run_vars>>
    \/ \E i \in Threads : Exit(i) /\ UNCHANGED <<detect_vars, api_vars, tool_vars, solver_vars, run_vars>>

SpecInterleaved == InitInterleaved /\ [][NextInterleaved]_vars

\* thread i has an invocation under way
UnderWay(i) == pc[i] \notin {"idle", "done"}

(***************************************************************************)
(* C25: the attempt count and the current html and images belong to one    *)
(* invocation: an invocation starts with a count of 0 and nothing fetched, *)
(* a step of another invocation changes none of them, and every            *)
(* invocation, interleaved or not, makes at most N solves and N + 1        *)
(* fetches.                                                                *)
(***************************************************************************)
C25_InvocationStateIsLocal ==
    /\ [](\A i \in Threads :
             /\ captcha_attempts[i] <= max_captcha_attempts
             /\ NumSolve(i) <= max_captcha_attempts
             /\ NumFetch(i) <= max_captcha_attempts + 1
             /\ pc[i] = "enter" => /\ captcha_attempts[i] = 0
                                   /\ html[i] = <<>>
                                   /\ images[i] = <<>>
                                   /\ calls[i] = <<>>)
    /\ [][\A i \in Threads :
             pc'[i] = pc[i] => /\ captcha_attempts'[i] = captcha_attempts[i]
                               /\ html'[i] = html[i]
                               /\ images'[i] = images[i]
                               /\ calls'[i] = calls[i]]_vars

\* two invocations under way at once, one after its first solve, the other
\* before, each with its own page
C25_Witness ==
    /\ UnderWay(1)
    /\ UnderWay(2)
    /\ captcha_attempts[1] = 1
    /\ NumSolve(1) = 1
    /\ captcha_attempts[2] = 0
    /\ NumFetch(2) = 1
    /\ html[1] # html[2]

(***************************************************************************)
(* C26: interleaved invocations each have their own browser: no fetch is   *)
(* made on a browser that is already closed, the browser an invocation's   *)
(* exit closes is the one its own enter launched, and once no invocation   *)
(* is under way every browser is closed and every Playwright instance      *)
(* stopped.                                                                *)
(***************************************************************************)
C26_OwnScopedBrowser ==
    /\ \A i \in Threads :
          /\ \A k \in 1..NumFetch(i) :
                CallsOf(i, "fetch")[k].ret.kind = "raise"
                => CallsOf(i, "fetch")[k].ret.value # BrowserClosed
          /\ \A k \in 1..Len(CallsOf(i, "exit")) :
                CallsOf(i, "exit")[k].inner = CallsOf(i, "enter")[k].inner
    /\ (\A i \in Threads : ~UnderWay(i))
       => /\ \A b \in 1..Len(browsers) : browsers[b] = "closed"
          /\ \A p \in 1..Len(playwrights) : playwrights[p] = "stopped"

(***************************************************************************)
(* WebScraperTool used directly, as the tests do: the with statement, and  *)
(* fetch_page_content step by step, inside the with block and outside it.  *)
(* Here Playwright, the site and the image downloads can fail.             *)
(***************************************************************************)
MaxEnters == 2      \* with statements on the one tool
MaxPages == 2       \* pages opened
MaxImgs == 2        \* img elements of a page

s_data_image == <<"d", "a", "t", "a", ":", "i", "m", "a", "g", "e">>
s_data_image_png_base64 ==
    <<"d", "a", "t", "a", ":", "i", "m", "a", "g", "e", "/", "p", "n", "g", ";",
      "b", "a", "s", "e", "6", "4", ",">>
s_logo_png == <<"l", "o", "g", "o", ".", "p", "n", "g">>

Base64Alphabet ==
    UpperLetters \o LowerLetters \o <<"0", "1", "2", "3", "4", "5", "6", "7", "8", "9", "+", "/">>

\* base64.b64encode(b).decode('utf-8'), b a sequence of bytes
RECURSIVE b64encode(_)
b64encode(b) ==
    IF Len(b) = 0 THEN <<>>
    ELSE IF Len(b) = 1
    THEN << Base64Alphabet[(b[1] \div 4) + 1],
            Base64Alphabet[(b[1] % 4) * 16 + 1], "=", "=" >>
    ELSE IF Len(b) = 2
    THEN << Base64Alphabet[(b[1] \div 4) + 1],
            Base64Alphabet[(b[1] % 4) * 16 + (b[2] \div 16) + 1],
            Base64Alphabet[(b[2] % 16) * 4 + 1], "=" >>
    ELSE << Base64Alphabet[(b[1] \div 4) + 1],
            Base64Alphabet[(b[1] % 4) * 16 + (b[2] \div 16) + 1],
            Base64Alphabet[(b[2] % 16) * 4 + (b[3] \div 64) + 1],
            Base64Alphabet[(b[3] % 64) + 1] >>
         \o b64encode(SubSeq(b, 4, Len(b)))

\* an img element: whether it has a src attribute, and the attribute's value
Img(src) == [attr |-> TRUE, src |-> src]
ImgNoSrc == [attr |-> FALSE, src |-> <<>>]
ImgElements ==
    { ImgNoSrc, Img(<<>>), Img(s_data_gif), Img(s_Captcha_png), Img(s_CAPTCHA_gif),
      Img(s_logo_png) }

\* what requests.get(src, ...).content gives: the bytes served, or an exception
Served(bytes) == [kind |-> "content", bytes |-> bytes]
DownloadFailed == [kind |-> "raise", bytes |-> <<>>]
Downloads == { Served(<<66, 0, 255, 16>>), DownloadFailed }

\* the test of the elif taking the case of src as it is
LooksLikeCaptcha_CaseSensitive(src) == Contains(src, s_captcha)

\* lines 94-96: "captcha" in src.lower() or re.search(r'captcha', src, re.I)
LooksLikeCaptcha(src) ==
    Contains(Lower(src), s_captcha) \/ re_search(<<s_captcha>>, src)

\* line 93: src.startswith("data:image")
IsDataImage(src) == MatchAt(s_data_image, src, 1)

\* images[k] = v on a dict kept as a sequence of <<key, value>> in insertion
\* order
DictSet(d, k, v) ==
    IF \E j \in 1..Len(d) : d[j][1] = k
    THEN [j \in 1..Len(d) |-> IF d[j][1] = k THEN <<k, v>> ELSE d[j]]
    ELSE Append(d, <<k, v>>)

\* the element has a url (not an inline image) with "captcha" in it, in any
\* case
SrcHasCaptcha(src) ==
    \E p \in 1..(Len(src) - Len(CaptchaAnyCase) + 1) :
        \A q \in 1..Len(CaptchaAnyCase) : src[p + q - 1] \in CaptchaAnyCase[q]
IsCaptchaUrl(img) ==
    /\ img.attr
    /\ img.src # <<>>
    /\ ~MatchAt(s_data_image, img.src, 1)
    /\ SrcHasCaptcha(img.src)

\* A site: the html page.content() gives, the img elements
\* page.query_selector_all("img") gives, and per element what a download of
\* its src gives (nothing where the element has no captcha url).
Site(h, imgs, net) == [html |-> h, imgs |-> imgs, net |-> net]
ImgLists == UNION { [1..n -> ImgElements] : n \in 0..MaxImgs }
NetFor(imgs) ==
    { net \in [1..Len(imgs) -> Downloads] :
        \A k \in 1..Len(imgs) : ~IsCaptchaUrl(imgs[k]) => net[k] = DownloadFailed }
\* page.query_selector_all("img") on a page with this html
PageImgs(h) ==
    LET els == SelectSeq(h, LAMBDA n : n.kind = "elem" /\ n.tag = s_img)
    IN  [k \in 1..Len(els) |->
            IF \E a \in 1..Len(els[k].attrs) : els[k].attrs[a][1] = s_src
            THEN Img(els[k].attrs[CHOOSE a \in 1..Len(els[k].attrs) :
                                     els[k].attrs[a][1] = s_src][2])
            ELSE ImgNoSrc]

\* the pages of the pipeline's fetch results, with what their img elements
\* serve
PipelineSites ==
    UNION { { Site(h, PageImgs(h), net) : net \in NetFor(PageImgs(h)) } :
              h \in {HtmlPlain, HtmlCaptchaImg, HtmlThreeImages} }

\* a plain page with any img elements, and the pages above
Sites ==
    UNION { { Site(HtmlPlain, imgs, net) : net \in NetFor(imgs) } : imgs \in ImgLists }
    \cup PipelineSites

\* the download with its failure stored as an image of no bytes
download_EmptyOnFailure(sofar, src, u, got) ==
    [images |-> DictSet(sofar.images, src,
                        s_data_image_png_base64 \o b64encode(got.bytes)),
     requests |-> Append(sofar.requests, [src |-> src, referer |-> u])]

\* lines 97-105: the try block, got being what requests.get(...).content
\* gives; the except clause prints and goes on
download(sofar, src, u, got) ==
    IF got.kind = "content"
    THEN [images |-> DictSet(sofar.images, src,
                             s_data_image_png_base64 \o b64encode(got.bytes)),
          requests |-> Append(sofar.requests, [src |-> src, referer |-> u])]
    ELSE [sofar EXCEPT !.requests = Append(@, [src |-> src, referer |-> u])]

\* WebScraperTool._extract_images over the first n img elements: the images
\* dict and the requests.get calls made
RECURSIVE extract_images_upto(_, _, _)
extract_images_upto(site, u, n) ==
    IF n = 0 THEN [images |-> <<>>, requests |-> <<>>]
    ELSE
      LET sofar == extract_images_upto(site, u, n - 1)
          img == site.imgs[n]
          src == img.src
      IN  IF ~img.attr \/ src = <<>>
          THEN sofar
          ELSE IF IsDataImage(src)
          THEN [sofar EXCEPT !.images = DictSet(@, src, src)]
          ELSE IF LooksLikeCaptcha(src)
          THEN download(sofar, src, u, site.net[n])
          ELSE sofar

_extract_images(site, u) == extract_images_upto(site, u, Len(site.imgs))

\* what Playwright can raise
StartFailed == Exc("Error", "Playwright failed to start")
LaunchFailed == Exc("Error", "BrowserType.launch: Executable doesn't exist")
CloseFailed == Exc("Error", "Browser.close: Connection closed")
StopFailed == Exc("Error", "Playwright.stop failed")
NavigationFailed == Exc("TimeoutError", "Timeout 60000ms exceeded")
FailedToLoad == Exc("Exception", "Failed to load")
ContentFailed == Exc("Error", "Page.content: Target crashed")
QueryFailed == Exc("Error", "Page.query_selector_all: Target crashed")

\* a call on the page and what it gave
PageCall(op, result) == [op |-> op, result |-> result]

ToolOut(op, ret, opened) ==
    [op |-> op, with |-> tool_with, ret |-> ret, url |-> tool_url,
     site |-> tool_site, requests |-> tool_requests, calls |-> tool_calls,
     opened |-> opened]

\* `with scraper:` reaches __enter__ (lines 32-36).  If start() raises
\* nothing was started; if launch() raises Playwright stays started and
\* _browser keeps its value; either way the with block is not entered and
\* __exit__ is not called.
ToolEnter ==
    /\ tool_pc = "ready"
    /\ ~tool_with
    /\ Len(playwrights) < MaxEnters
    /\ \/ /\ tool_out' = ToolOut("enter", Raise(StartFailed), 0)
          /\ UNCHANGED <<scraper_vars, tool_with>>
       \/ /\ playwrights' = Append(playwrights, "started")
          /\ _playwright' = Len(playwrights')
          /\ tool_out' = ToolOut("enter", Raise(LaunchFailed), 0)
          /\ UNCHANGED <<_browser, browsers, tool_with>>
       \/ /\ playwrights' = Append(playwrights, "started")
          /\ _playwright' = Len(playwrights')
          /\ browsers' = Append(browsers, "open")
          /\ _browser' = Len(browsers')
          /\ tool_with' = TRUE
          /\ tool_out' = ToolOut("enter", Return(None), 0)
    /\ UNCHANGED <<tool_pc, tool_url, tool_site, tool_html, tool_pending, tool_requests,
                   tool_calls, pages, page>>

\* __exit__ with close() and stop() going well
exit_CloseAndStop ==
    /\ browsers' = [browsers EXCEPT ![_browser] = "closed"]
    /\ playwrights' = [playwrights EXCEPT ![_playwright] = "stopped"]
    /\ tool_out' = ToolOut("exit", Return(None), 0)

\* __exit__ with close() raising: the browser may or may not have gone, and
\* line 43 is not reached
exit_CloseRaises ==
    /\ browsers' \in { browsers, [browsers EXCEPT ![_browser] = "closed"] }
    /\ playwrights' = playwrights
    /\ tool_out' = ToolOut("exit", Raise(CloseFailed), 0)

\* __exit__ with stop() raising
exit_StopRaises ==
    /\ browsers' = [browsers EXCEPT ![_browser] = "closed"]
    /\ playwrights' \in { playwrights, [playwrights EXCEPT ![_playwright] = "stopped"] }
    /\ tool_out' = ToolOut("exit", Raise(StopFailed), 0)

\* leaving the with block, by its end or by an exception: __exit__ (lines
\* 38-43); inside the block both fields are set
ToolExit ==
    /\ tool_pc = "ready"
    /\ tool_with
    /\ exit_CloseAndStop \/ exit_CloseRaises \/ exit_StopRaises
    /\ tool_with' = FALSE
    /\ UNCHANGED <<_playwright, _browser, tool_pc, tool_url, tool_site, tool_html,
                   tool_pending, tool_requests, tool_calls, pages, page>>

\* line 60: not self._browser
BrowserUnset == _browser = 0

\* fetch_page_content(u) is called, inside the with block or outside it:
\* lines 60-63.  new_page() on a browser that is closed raises and opens
\* nothing.
ToolFetch ==
    /\ tool_pc = "ready"
    /\ \E u \in { in[1] : in \in Inputs } :
          IF BrowserUnset
          THEN /\ tool_out' = [ToolOut("fetch", Raise(BrowserNotInitialized), 0) EXCEPT !.url = u]
               /\ UNCHANGED <<tool_pc, tool_url, pages, page>>
          ELSE IF browsers[_browser] # "open"
          THEN /\ tool_out' = [ToolOut("fetch", Raise(BrowserClosed), 0) EXCEPT !.url = u]
               /\ UNCHANGED <<tool_pc, tool_url, pages, page>>
          ELSE /\ Len(pages) < MaxPages
               /\ pages' = Append(pages, 0)
               /\ page' = Len(pages')
               /\ tool_url' = u
               /\ tool_pc' = "goto"
               /\ tool_out' = NoToolOut
    /\ UNCHANGED <<scraper_vars, tool_with, tool_site, tool_html, tool_pending, tool_requests,
                   tool_calls>>

\* lines 65-67: page.goto raises, gives no response, or gives one
ToolGoto ==
    /\ tool_pc = "goto"
    /\ \/ /\ tool_pending' = Raise(NavigationFailed)
          /\ tool_calls' = Append(tool_calls, PageCall("goto", "raise"))
          /\ tool_pc' = "finally"
          /\ UNCHANGED tool_site
       \/ /\ tool_pending' = Raise(FailedToLoad)
          /\ tool_calls' = Append(tool_calls, PageCall("goto", "None"))
          /\ tool_pc' = "finally"
          /\ UNCHANGED tool_site
       \/ /\ tool_site' \in Sites
          /\ tool_calls' = Append(tool_calls, PageCall("goto", "response"))
          /\ tool_pc' = "content"
          /\ UNCHANGED tool_pending
    /\ UNCHANGED <<scraper_vars, tool_with, tool_url, tool_html, tool_requests, tool_out,
                   pages, page>>

\* line 69: html = page.content()
ToolContent ==
    /\ tool_pc = "content"
    /\ \/ /\ tool_html' = tool_site.html
          /\ tool_calls' = Append(tool_calls, PageCall("content", "html"))
          /\ tool_pc' = "images"
          /\ UNCHANGED tool_pending
       \/ /\ tool_pending' = Raise(ContentFailed)
          /\ tool_calls' = Append(tool_calls, PageCall("content", "raise"))
          /\ tool_pc' = "finally"
          /\ UNCHANGED tool_html
    /\ UNCHANGED <<scraper_vars, tool_with, tool_url, tool_site, tool_requests, tool_out,
                   pages, page>>

\* lines 72-74: images = self._extract_images(page, url); return html, images
ToolExtractImages ==
    /\ tool_pc = "images"
    /\ \/ /\ tool_pending' = Return(FetchResult(tool_html, _extract_images(tool_site, tool_url).images))
          /\ tool_requests' = _extract_images(tool_site, tool_url).requests
          /\ tool_calls' = Append(tool_calls, PageCall("query_selector_all", "elements"))
       \/ /\ tool_pending' = Raise(QueryFailed)
          /\ tool_calls' = Append(tool_calls, PageCall("query_selector_all", "raise"))
          /\ UNCHANGED tool_requests
    /\ tool_pc' = "finally"
    /\ UNCHANGED <<scraper_vars, tool_with, tool_url, tool_site, tool_html, tool_out,
                   pages, page>>

\* the page is closed only when the try block returned
finally_pages_OnReturnOnly ==
    IF tool_pending.kind = "return" THEN [pages EXCEPT ![page] = @ + 1] ELSE pages

\* lines 76-77: finally: page.close()
finally_pages == [pages EXCEPT ![page] = @ + 1]

\* the finally clause, then the return value or the exception reaches the
\* caller
ToolFinally ==
    /\ tool_pc = "finally"
    /\ pages' = finally_pages
    /\ tool_out' = [ToolOut("fetch", tool_pending, 1)
                        EXCEPT !.calls = IF pages'[page] # pages[page]
                                         THEN Append(@, PageCall("close", "None")) ELSE @]
    /\ tool_pc' = "ready"
    /\ tool_url' = None
    /\ tool_site' = NoSite
    /\ tool_html' = <<>>
    /\ tool_pending' = NoOutcome
    /\ tool_requests' = <<>>
    /\ tool_calls' = <<>>
    /\ page' = 0
    /\ UNCHANGED <<scraper_vars, tool_with>>

orchestrator_vars ==
    <<max_captcha_attempts, ncalls, pc, url, query, captcha_attempts, html, images,
      captcha_image, pending, outcome, calls>>

InitTool ==
    /\ max_captcha_attempts = MaxAttempts
    /\ ScraperNew
    /\ Idle
    /\ NoDetect
    /\ NoAsk
    /\ NoTool
    /\ NoSolver
    /\ NoRun

NextTool ==
    \/ ToolEnter /\ UNCHANGED <<orchestrator_vars, detect_vars, api_vars, solver_vars, run_vars>>
    \/ ToolFetch /\ UNCHANGED <<orchestrator_vars, detect_vars, api_vars, solver_vars, run_vars>>
    \/ ToolGoto /\ UNCHANGED <<orchestrator_vars, detect_vars, api_vars, solver_vars, run_vars>>
    \/ ToolContent /\ UNCHANGED <<orchestrator_vars, detect_vars, api_vars, solver_vars, run_vars>>
    \/ ToolExtractImages /\ UNCHANGED <<orchestrator_vars, detect_vars, api_vars, solver_vars, run_vars>>
    \/ ToolFinally /\ UNCHANGED <<orchestrator_vars, detect_vars, api_vars, solver_vars, run_vars>>
    \/ ToolExit /\ UNCHANGED <<orchestrator_vars, detect_vars, api_vars, solver_vars, run_vars>>

SpecTool == InitTool /\ [][NextTool]_vars

\* the direct user is outside the with statement and no call is under way
ToolAtRest == tool_pc = "ready" /\ ~tool_with

(***************************************************************************)
(* C27: once the with statement on the tool is over, however it went       *)
(* (launch failing after Playwright was started, close() raising in        *)
(* __exit__), every Playwright instance that was started is stopped and    *)
(* every browser that was launched is closed.                              *)
(***************************************************************************)
C27_AllStoppedAndClosed ==
    ToolAtRest
    => /\ \A p \in 1..Len(playwrights) : playwrights[p] = "stopped"
       /\ \A b \in 1..Len(browsers) : browsers[b] = "closed"

\* the calls on the page a finished fetch made, by operation
PageCalls(op) == SelectSeq(tool_out.calls, LAMBDA c : c.op = op)

(***************************************************************************)
(* C28: every page fetch_page_content opens is closed exactly once before  *)
(* the call returns or raises: a page of a finished fetch has had one      *)
(* close(), made last, whether the fetch returned, goto raised, goto gave  *)
(* no response (then the fetch raises 'Failed to load' and never reads the *)
(* content), or content or image extraction raised; the page of a fetch    *)
(* under way has had none.                                                 *)
(***************************************************************************)
C28_PageClosedOnce ==
    /\ \A k \in 1..Len(pages) :
          pages[k] = IF tool_pc # "ready" /\ k = page THEN 0 ELSE 1
    /\ (tool_out.op = "fetch" /\ tool_out.opened = 1)
       => /\ Len(PageCalls("close")) = 1
          /\ tool_out.calls[Len(tool_out.calls)].op = "close"
          /\ tool_out.calls[1].op = "goto"
          /\ tool_out.calls[1].result = "None"
             => /\ tool_out.ret = Raise(FailedToLoad)
                /\ PageCalls("content") = <<>>
          /\ tool_out.ret.kind = "return"
             => /\ tool_out.calls[1].result = "response"
                /\ Len(tool_out.calls) = 4

\* two fetches finished, the later one by an exception during image
\* extraction, and both pages closed once
C28_Witness ==
    /\ tool_pc = "ready"
    /\ Len(pages) = 2
    /\ tool_out.op = "fetch"
    /\ tool_out.ret = Raise(QueryFailed)
    /\ PageCalls("close") # <<>>

(***************************************************************************)
(* C29: a fetch_page_content call made outside the with block (the tool    *)
(* never entered, or entered and exited) raises the 'Browser not           *)
(* initialized' error and opens no page.                                   *)
(***************************************************************************)
C29_NotInitializedOutsideWith ==
    (tool_out.op = "fetch" /\ ~tool_out.with)
    => /\ tool_out.ret = Raise(BrowserNotInitialized)
       /\ tool_out.opened = 0

\* what a finished, successful fetch was given and gave
Imgs == tool_out.site.imgs
Net == tool_out.site.net
ImageMap == tool_out.ret.value.images
FetchReturned == tool_out.op = "fetch" /\ tool_out.ret.kind = "return"

\* the element is an inline image
IsInline(img) == img.attr /\ img.src # <<>> /\ MatchAt(s_data_image, img.src, 1)

\* the last element with this captcha url whose download gave its bytes
LastServed(src) ==
    CHOOSE k \in 1..Len(Imgs) :
        /\ Imgs[k].src = src /\ IsCaptchaUrl(Imgs[k]) /\ Net[k].kind = "content"
        /\ \A l \in (k + 1)..Len(Imgs) :
              ~(Imgs[l].src = src /\ IsCaptchaUrl(Imgs[l]) /\ Net[l].kind = "content")

\* the map has one entry per key; an inline image is stored under itself, a
\* captcha url with the png data URI of the bytes last downloaded for it;
\* every value is a data URI; one download, with the page url as Referer,
\* was made per element with a captcha url, in document order
ImageMapOver(kept(_)) ==
    /\ { ImageMap[j][1] : j \in 1..Len(ImageMap) }
          = { Imgs[k].src : k \in { l \in 1..Len(Imgs) : kept(l) } }
    /\ \A j, l \in 1..Len(ImageMap) : ImageMap[j][1] = ImageMap[l][1] => j = l
    /\ \A j \in 1..Len(ImageMap) :
          /\ MatchAt(<<"d", "a", "t", "a", ":">>, ImageMap[j][2], 1)
          /\ IF MatchAt(s_data_image, ImageMap[j][1], 1)
             THEN ImageMap[j][2] = ImageMap[j][1]
             ELSE /\ MatchAt(s_data_image_png_base64, ImageMap[j][2], 1)
                  /\ (\E k \in 1..Len(Imgs) :
                         Imgs[k].src = ImageMap[j][1] /\ Net[k].kind = "content")
                     => ImageMap[j][2] = s_data_image_png_base64
                                           \o b64encode(Net[LastServed(ImageMap[j][1])].bytes)
    /\ tool_out.requests
          = [k \in 1..Len(SelectSeq(Imgs, IsCaptchaUrl)) |->
                [src |-> SelectSeq(Imgs, IsCaptchaUrl)[k].src, referer |-> tool_out.url]]

(***************************************************************************)
(* C30 as stated: the image map of a fetch has exactly the img elements    *)
(* with a non-empty src that is an inline data:image URI (stored under     *)
(* itself) or has 'captcha' in it in any case (downloaded with the page    *)
(* url as Referer, stored under its src as a 'data:image/png;base64,'      *)
(* URI); every value is a data URI and no other image is in the map.       *)
(***************************************************************************)
C30_ImageMapExact ==
    FetchReturned
    => ImageMapOver(LAMBDA k : IsInline(Imgs[k]) \/ IsCaptchaUrl(Imgs[k]))

(***************************************************************************)
(* C30 amended: as above, but an element with a captcha url is in the map  *)
(* only if a download of its url succeeded; a failed download is skipped   *)
(* and the fetch still returns.                                            *)
(***************************************************************************)
C30_ImageMapOfDownloaded ==
    FetchReturned
    => ImageMapOver(LAMBDA k : \/ IsInline(Imgs[k])
                               \/ /\ IsCaptchaUrl(Imgs[k])
                                  /\ \E l \in 1..Len(Imgs) :
                                        Imgs[l].src = Imgs[k].src /\ Net[l].kind = "content")

\* a page with two captcha urls, the first download failed, the second
\* served: the map has the second only
C30_Witness ==
    /\ FetchReturned
    /\ Len(Imgs) = 2
    /\ IsCaptchaUrl(Imgs[1])
    /\ IsCaptchaUrl(Imgs[2])
    /\ Imgs[1].src # Imgs[2].src
    /\ Net[1].kind = "raise"
    /\ Net[2].kind = "content"
    /\ Len(ImageMap) = 1
    /\ Len(tool_out.requests) = 2

(***************************************************************************)
(* process_query over the tool's own fetch: what a fetch returns is what   *)
(* _extract_images makes of the page's img elements and of the downloads,  *)
(* some of which fail.  One call, navigation going well.                   *)
(***************************************************************************)
MaxAttemptsSites == 1

\* fetch_page_content(url) on an open browser showing this site
FetchedFrom(site, u) == Return(FetchResult(site.html, _extract_images(site, u).images))

\* line 98 with the fetch done by the tool
FetchSite(i) ==
    /\ pc[i] = "fetch"
    /\ _browser # 0
    /\ browsers[_browser] = "open"
    /\ \E site \in PipelineSites :
          /\ FetchInto(i, FetchedFrom(site, url[i]))
          /\ tool_site' = site
    /\ UNCHANGED <<tool_pc, tool_with, tool_url, tool_html, tool_pending, tool_requests,
                   tool_calls, tool_out, pages, page>>

\* line 122 with the fetch done by the tool
RefetchSite(i) ==
    /\ pc[i] = "refetch"
    /\ _browser # 0
    /\ browsers[_browser] = "open"
    /\ \E site \in PipelineSites :
          /\ FetchInto(i, FetchedFrom(site, url[i]))
          /\ tool_site' = site
    /\ UNCHANGED <<tool_pc, tool_with, tool_url, tool_html, tool_pending, tool_requests,
                   tool_calls, tool_out, pages, page>>

InitSites ==
    /\ max_captcha_attempts \in 0..MaxAttemptsSites
    /\ ScraperNew
    /\ Idle
    /\ NoDetect
    /\ NoAsk
    /\ NoTool
    /\ NoSolver
    /\ NoRun

NextSites ==
    \/ FirstCall /\ UNCHANGED <<detect_vars, api_vars, tool_vars, solver_vars, run_vars>>
    \/ \E i \in Threads : Enter(i) /\ UNCHANGED <<detect_vars, api_vars, tool_vars, solver_vars, run_vars>>
    \/ \E i \in Threads : FetchSite(i) /\ UNCHANGED <<detect_vars, api_vars, solver_vars, run_vars>>
    \/ \E i \in Threads : WhileTest(i) /\ UNCHANGED <<detect_vars, api_vars, tool_vars, solver_vars, run_vars>>
    \/ \E i \in Threads : LoopBody(i) /\ UNCHANGED <<detect_vars, api_vars, tool_vars, solver_vars, run_vars>>
    \/ \E i \in Threads : Solve(i) /\ UNCHANGED <<detect_vars, api_vars, tool_vars, solver_vars, run_vars>>
    \/ \E i \in Threads : RefetchSite(i) /\ UNCHANGED <<detect_vars, api_vars, solver_vars, run_vars>>
    \/ \E i \in Threads : CheckExceeded(i) /\ UNCHANGED <<detect_vars, api_vars, tool_vars, solver_vars, run_vars>>
    \/ \E i \in Threads : Analyze(i) /\ UNCHANGED <<detect_vars, api_vars, tool_vars, solver_vars, run_vars>>
    \/ \E i \in Threads : Exit(i) /\ UNCHANGED <<detect_vars, api_vars, tool_vars, solver_vars, run_vars>>

SpecSites == InitSites /\ [][NextSites]_vars

\* the page of the most recent fetch has captcha urls and every download of
\* them failed
ChallengeLost ==
    /\ \E k \in 1..Len(tool_site.imgs) : IsCaptchaUrl(tool_site.imgs[k])
    /\ \A k \in 1..Len(tool_site.imgs) :
          IsCaptchaUrl(tool_site.imgs[k]) => tool_site.net[k].kind = "raise"

\* the inline images of the page, each under itself
InlineOnly(imgs) ==
    LET inl == SelectSeq(imgs, LAMBDA g : g.attr /\ g.src # <<>> /\ MatchAt(s_data_image, g.src, 1))
    IN  [k \in 1..Len(inl) |-> <<inl[k].src, inl[k].src>>]

(***************************************************************************)
(* C31: a fetch of a gated page whose captcha image downloads all fail     *)
(* still returns: the page's html, and an image map without those images   *)
(* but with the page's other (inline) images.  process_query takes it as a *)
(* gated fetch with no challenge image: it makes no solve_captcha call and *)
(* no further fetch for it.                                                *)
(***************************************************************************)
C31_FailedDownloadIsNoChallenge ==
    (ChallengeLost /\ pc[1] \notin {"idle", "enter", "fetch"})
    => LET log == Collab(1)
           last == LastFetch(1)
       IN  /\ last.ret.kind = "return"
           /\ last.ret.value.html = tool_site.html
           /\ last.ret.value.images = InlineOnly(tool_site.imgs)
           /\ last.inner.gated
           /\ ~last.inner.keyed
           /\ pc[1] \notin {"solve", "refetch"}
           /\ log[Len(log)].op \in {"fetch", "analyze"}

\* the first fetch gave a challenge image, which was solved; on the refetch
\* the downloads failed and the invocation ended without a second solve,
\* the page's inline image still in the map
C31_Witness ==
    /\ pc[1] = "done"
    /\ ChallengeLost
    /\ NumFetch(1) = 2
    /\ NumSolve(1) = 1
    /\ Len(LastFetch(1).ret.value.images) = 1

\* the analyze_content calls whose model response parsed as a JSON object
ObjectAnalyses(i) ==
    SelectSeq(CallsOf(i, "analyze"),
              LAMBDA c : /\ c.inner.kind = "return"
                         /\ json_loads(c.inner.value.content).type = "dict")

MaxText == 3        \* characters of a model response

TextChars == {"A", " ", "\"", "'", "\n"}
Texts == UNION { [1..n -> TextChars] : n \in 0..MaxText }

\* the characters str.strip() removes, as far as they can be written here
Whitespace == {" ", "\t", "\n", "\r", "\f"}
QuoteChars == {"\"", "'"}

\* str.strip(chars): the characters of the set removed from both ends
strip(s, chars) ==
    LET keep == { k \in 1..Len(s) : s[k] \notin chars }
    IN  IF keep = {} THEN <<>>
        ELSE SubSeq(s, CHOOSE k \in keep : \A m \in keep : k <= m,
                       CHOOSE k \in keep : \A m \in keep : k >= m)

\* lines 81 and 115: solution.strip().strip('"\'')
clean_up(s) == strip(strip(s, Whitespace), QuoteChars)

\* what llm.invoke gives the solver: a message with a str content, a dict
\* with a 'content' key, another object (content: its str()), a message
\* whose content is a list of parts, or an exception
SolverResponses ==
    { LLMResponse(shape, t) : shape \in {"message", "dict", "other"}, t \in Texts }
    \cup { LLMResponse("parts", <<>>) }
SolverInvokeExceptions ==
    { Exc("ConnectionError", "model unreachable"), Exc("Exception", "LLM error") }
NoStrip == Exc("AttributeError", "'list' object has no attribute 'strip'")

SolverCalls ==
    { [method |-> "solve_captcha", image_data_uri |-> s_data_png_1, context |-> c,
       challenge |-> None] : c \in {None, "", "<html>What is 2+2?</html>"} }
    \cup { [method |-> "solve_text_captcha", image_data_uri |-> <<>>, context |-> None,
            challenge |-> "What is 2+2?"] }

\* lines 51-66 and 95-103: the messages given to llm.invoke
Messages(call) ==
    IF call.method = "solve_captcha"
    THEN [system |-> "You are a CAPTCHA solving assistant. Your task is to accurately read ...",
          text |-> IF call.context \in {None, ""}
                   THEN <<"What text do you see in this CAPTCHA image?">>
                   ELSE <<"What text do you see in this CAPTCHA image?", "\n\nContext: ",
                          call.context>>,
          image_url |-> call.image_data_uri]
    ELSE [system |-> "You are a CAPTCHA solving assistant specialized in solving text-based ...",
          text |-> <<"Solve this CAPTCHA challenge: ", call.challenge>>,
          image_url |-> <<>>]

\* line 36: solve_captcha(image_data_uri, context) is called
SolveCaptchaCall ==
    /\ solver_pc \in {"idle", "done"}
    /\ solver_call' \in { c \in SolverCalls : c.method = "solve_captcha" }
    /\ invocations' = <<>>
    /\ solution' = <<>>
    /\ solver_out' = NoOutcome
    /\ solver_pc' = "invoke"

\* line 85: solve_text_captcha(challenge) is called
SolveTextCaptchaCall ==
    /\ solver_pc \in {"idle", "done"}
    /\ solver_call' \in { c \in SolverCalls : c.method = "solve_text_captcha" }
    /\ invocations' = <<>>
    /\ solution' = <<>>
    /\ solver_out' = NoOutcome
    /\ solver_pc' = "invoke"

\* what the call does with the outcome of llm.invoke: an exception leaves
\* the method; the content of a response becomes solution, and a content
\* that is no str fails at line 81 / 115
SolverTakes(invoked) ==
    IF invoked.kind = "raise"
    THEN /\ solver_out' = invoked
         /\ solver_pc' = "done"
         /\ UNCHANGED solution
    ELSE IF invoked.value.shape = "parts"
    THEN /\ solver_out' = Raise(NoStrip)
         /\ solver_pc' = "done"
         /\ UNCHANGED solution
    ELSE /\ solution' = ResponseContent(invoked.value)
         /\ solver_pc' = "clean"
         /\ UNCHANGED solver_out

\* llm.invoke called again after a first failure
SolverInvoke_Retry ==
    /\ solver_pc = "invoke"
    /\ \E invoked \in { Return(r) : r \in SolverResponses }
                      \cup { Raise(e) : e \in SolverInvokeExceptions } :
          /\ invocations' = Append(invocations,
                                   [messages |-> Messages(solver_call), outcome |-> invoked])
          /\ IF invoked.kind = "raise" /\ invocations = <<>>
             THEN UNCHANGED <<solver_pc, solution, solver_out>>
             ELSE SolverTakes(invoked)
    /\ UNCHANGED solver_call

\* lines 69-78 and 105-113: response = self.llm.invoke([...]), then the
\* solution text taken from it
SolverInvoke ==
    /\ solver_pc = "invoke"
    /\ \E invoked \in { Return(r) : r \in SolverResponses }
                      \cup { Raise(e) : e \in SolverInvokeExceptions } :
          /\ invocations' = Append(invocations,
                                   [messages |-> Messages(solver_call), outcome |-> invoked])
          /\ SolverTakes(invoked)
    /\ UNCHANGED solver_call

\* lines 81-83 and 115-117: the clean-up and the return
SolverCleanUp ==
    /\ solver_pc = "clean"
    /\ solution' = clean_up(solution)
    /\ solver_out' = Return(solution')
    /\ solver_pc' = "done"
    /\ UNCHANGED <<solver_call, invocations>>

InitSolver ==
    /\ max_captcha_attempts = MaxAttempts
    /\ ScraperNew
    /\ Idle
    /\ NoDetect
    /\ NoAsk
    /\ NoTool
    /\ NoSolver
    /\ NoRun

NextSolver ==
    \/ SolveCaptchaCall
          /\ UNCHANGED <<orchestrator_vars, scraper_vars, detect_vars, api_vars, tool_vars, run_vars>>
    \/ SolveTextCaptchaCall
          /\ UNCHANGED <<orchestrator_vars, scraper_vars, detect_vars, api_vars, tool_vars, run_vars>>
    \/ SolverInvoke
          /\ UNCHANGED <<orchestrator_vars, scraper_vars, detect_vars, api_vars, tool_vars, run_vars>>
    \/ SolverCleanUp
          /\ UNCHANGED <<orchestrator_vars, scraper_vars, detect_vars, api_vars, tool_vars, run_vars>>

SpecSolver == InitSolver /\ [][NextSolver]_vars

(***************************************************************************)
(* C32: a call of solve_captcha or solve_text_captcha invokes the model    *)
(* exactly once; when the invocation raises, the caller gets that          *)
(* exception, with no second invocation and no value returned instead.     *)
(***************************************************************************)
C32_OneInvocationFailurePropagates ==
    /\ solver_pc = "invoke" => invocations = <<>>
    /\ solver_pc \in {"clean", "done"}
       => /\ Len(invocations) = 1
          /\ invocations[1].messages = Messages(solver_call)
          /\ invocations[1].outcome.kind = "raise"
             => /\ solver_pc = "done"
                /\ solver_out = invocations[1].outcome

\* a solve_text_captcha call whose one invocation raised 'LLM error', which
\* the caller got
C32_Witness ==
    /\ solver_pc = "done"
    /\ solver_call.method = "solve_text_captcha"
    /\ Len(invocations) = 1
    /\ invocations[1].outcome = Raise(Exc("Exception", "LLM error"))
    /\ solver_out = Raise(Exc("Exception", "LLM error"))

(***************************************************************************)
(* C35: the solution returned for a model response text is normalised: it  *)
(* neither begins nor ends with a whitespace character or a quote, and the *)
(* clean-up applied to it again leaves it unchanged.                       *)
(***************************************************************************)
C35_SolutionNormalised ==
    (solver_pc = "done" /\ solver_out.kind = "return")
    => LET r == solver_out.value
       IN  /\ r # <<>> => /\ r[1] \notin Whitespace \cup QuoteChars
                          /\ r[Len(r)] \notin Whitespace \cup QuoteChars
           /\ clean_up(r) = r

(***************************************************************************)
(* CustomScrapeWebsiteTool._run: the tool's with block around one fetch    *)
(* and one detect_captcha, inside try / except Exception.                  *)
(***************************************************************************)

\* str(e) for the exceptions of the model
StrOfExc(e) == e.msg

\* line 45: f"Error scraping website: {str(e)}"
ErrorString(e) == <<"Error scraping website: ", StrOfExc(e)>>

\* lines 37-43: str(result), the dict rendered with its three keys
Rendered(h, imgs, has_captcha) ==
    <<"{'html': ", h, ", 'images': ", imgs, ", 'has_captcha': ",
      IF has_captcha THEN "True" ELSE "False", "}">>

DetectFailed == Exc("ParserRejectedMarkup", "detect_captcha failed")

\* line 23: _run(url) is called
RunCall ==
    /\ run_pc \in {"idle", "done"}
    /\ tool_pc = "ready"
    /\ ~tool_with
    /\ Len(playwrights) < MaxEnters
    /\ Len(pages) < MaxPages
    /\ run_pc' = "enter"
    /\ run_pending' = NoOutcome
    /\ run_out' = NoOutcome
    /\ UNCHANGED <<scraper_vars, tool_vars>>

\* line 33: with self._scraper as scraper; an exception of __enter__ goes
\* to the except clause
RunEnter ==
    /\ run_pc = "enter"
    /\ ToolEnter
    /\ IF tool_out'.ret.kind = "raise"
       THEN /\ run_out' = Return(ErrorString(tool_out'.ret.value))
            /\ run_pc' = "done"
       ELSE /\ run_pc' = "fetch"
            /\ UNCHANGED run_out
    /\ UNCHANGED run_pending

\* line 34: scraper.fetch_page_content(url) is called
RunFetch ==
    /\ run_pc = "fetch"
    /\ ToolFetch
    /\ run_pc' = "page"
    /\ UNCHANGED <<run_pending, run_out>>

\* the steps of that fetch on its page
RunGoto == run_pc = "page" /\ ToolGoto /\ tool_site' \in PipelineSites \cup {NoSite} /\ UNCHANGED run_vars
RunContent == run_pc = "page" /\ ToolContent /\ UNCHANGED run_vars
RunExtractImages == run_pc = "page" /\ ToolExtractImages /\ UNCHANGED run_vars

\* line 34: html, images = ...; an exception of the fetch leaves the with
\* block
RunFinally ==
    /\ run_pc = "page"
    /\ ToolFinally
    /\ IF tool_out'.ret.kind = "raise"
       THEN /\ run_pending' = tool_out'.ret
            /\ run_pc' = "exit"
       ELSE /\ run_pc' = "detect"
            /\ UNCHANGED run_pending
    /\ UNCHANGED run_out

\* lines 35-43: has_captcha = scraper.detect_captcha(html), then
\* return str(result)
RunDetect ==
    /\ run_pc = "detect"
    /\ \/ run_pending' = Return(Rendered(tool_out.ret.value.html, tool_out.ret.value.images,
                                         detect_captcha(tool_out.ret.value.html)))
       \/ run_pending' = Raise(DetectFailed)
    /\ run_pc' = "exit"
    /\ UNCHANGED <<scraper_vars, tool_vars, run_out>>

\* leaving the with block: __exit__, whose exception replaces what was on
\* its way out; lines 44-45 turn an exception into the error string
RunExit ==
    /\ run_pc = "exit"
    /\ ToolExit
    /\ run_out' = IF tool_out'.ret.kind = "raise"
                  THEN Return(ErrorString(tool_out'.ret.value))
                  ELSE IF run_pending.kind = "raise"
                  THEN Return(ErrorString(run_pending.value))
                  ELSE run_pending
    /\ run_pc' = "done"
    /\ UNCHANGED run_pending

InitRun ==
    /\ max_captcha_attempts = MaxAttempts
    /\ ScraperNew
    /\ Idle
    /\ NoDetect
    /\ NoAsk
    /\ NoTool
    /\ NoSolver
    /\ NoRun

NextRun ==
    \/ RunCall /\ UNCHANGED <<orchestrator_vars, detect_vars, api_vars, solver_vars>>
    \/ RunEnter /\ UNCHANGED <<orchestrator_vars, detect_vars, api_vars, solver_vars>>
    \/ RunFetch /\ UNCHANGED <<orchestrator_vars, detect_vars, api_vars, solver_vars>>
    \/ RunGoto /\ UNCHANGED <<orchestrator_vars, detect_vars, api_vars, solver_vars>>
    \/ RunContent /\ UNCHANGED <<orchestrator_vars, detect_vars, api_vars, solver_vars>>
    \/ RunExtractImages /\ UNCHANGED <<orchestrator_vars, detect_vars, api_vars, solver_vars>>
    \/ RunFinally /\ UNCHANGED <<orchestrator_vars, detect_vars, api_vars, solver_vars>>
    \/ RunDetect /\ UNCHANGED <<orchestrator_vars, detect_vars, api_vars, solver_vars>>
    \/ RunExit /\ UNCHANGED <<orchestrator_vars, detect_vars, api_vars, solver_vars>>

SpecRun == InitRun /\ [][NextRun]_vars

\* _run has returned a string of one of its two forms
RunReturnedString ==
    /\ run_out.kind = "return"
    /\ \/ /\ Len(run_out.value) = 2
          /\ run_out.value[1] = "Error scraping website: "
       \/ /\ Len(run_out.value) = 7
          /\ run_out.value[1] = "{'html': "
          /\ run_out.value[3] = ", 'images': "
          /\ run_out.value[5] = ", 'has_captcha': "
          /\ run_out.value[6] \in {"True", "False"}

(***************************************************************************)
(* C33: _run never raises: it returns the rendered result with html,       *)
(* images and has_captcha, or a string starting with 'Error scraping       *)
(* website: '; and when its scraper context was entered, the browser of    *)
(* that context is closed when _run returns.                               *)
(***************************************************************************)
C33_RunReturnsStringAndReleases ==
    run_pc = "done"
    => /\ RunReturnedString
       /\ tool_out.op = "exit" => browsers[_browser] = "closed"

====
